---- MODULE Spec2Model ----
(***************************************************************************)
(* A model of cgmath: projection-matrix construction, plane construction   *)
(* and the ray/plane/sphere intersection predicates.                       *)
(*                                                                         *)
(* Every operation of the library is a pure function of its arguments, so  *)
(* the state machine is a call/return harness: call holds the operation    *)
(* and its arguments, pc tells whether the operation has run, and ret      *)
(* holds what it returned (a value, an Option, or a failed assertion).     *)
(*                                                                         *)
(* Scalars (the generic S: BaseFloat) are modelled as exact rationals,     *)
(* extended with +inf, -inf and NaN for the results of a division by zero. *)
(* Rounding is not modelled: arithmetic is exact.                          *)
(***************************************************************************)
EXTENDS Integers, Sequences, FiniteSets, TLC

VARIABLES call, ret, pc

vars == <<call, ret, pc>>

(***************************************************************************)
(* Scalars.  A scalar is the rational num / (den * Base^exp) in lowest     *)
(* terms, with den > 0 not divisible by Base: Base = 1/epsilon, so that    *)
(* epsilon and epsilon^2 = 1e-10 are scalars of the model within TLC's     *)
(* integers.  den = 0 encodes the non-finite floats: 1/0 = +inf,           *)
(* -1/0 = -inf, 0/0 = NaN.                                                 *)
(***************************************************************************)
Base == 100000

Abs(i) == IF i < 0 THEN -i ELSE i

Sign(i) == IF i < 0 THEN -1 ELSE IF i > 0 THEN 1 ELSE 0

RECURSIVE Gcd(_, _)
Gcd(a, b) == IF b = 0 THEN a ELSE Gcd(b, a % b)

\* Base^k
RECURSIVE Pow(_)
Pow(k) == IF k = 0 THEN 1 ELSE Base * Pow(k - 1)

\* floor(a / Base^k) and ceiling(a / Base^k)
RECURSIVE FloorDivPow(_, _)
FloorDivPow(a, k) == IF k = 0 THEN a ELSE FloorDivPow(a \div Base, k - 1)

CeilDivPow(a, k) == -FloorDivPow(-a, k)

\* n / (d * Base^e) for coprime n, d > 0: cancel what n shares with Base^e,
\* then move the powers of Base in d to the exponent.
RECURSIVE Reduce(_, _, _)
Reduce(n, d, e) ==
    IF e > 0 /\ Gcd(n, Base) > 1
    THEN LET h == Gcd(n, Base)
         IN  Reduce(n \div h, d * (Base \div h), e - 1)
    ELSE IF d % Base = 0 THEN Reduce(n, d \div Base, e + 1)
    ELSE <<n, d, e>>

Norm3(n, d, e) ==
    IF d = 0 THEN [num |-> Sign(n), den |-> 0, exp |-> 0]
    ELSE IF n = 0 THEN [num |-> 0, den |-> 1, exp |-> 0]
    ELSE LET g == Gcd(Abs(n), Abs(d))
             r == Reduce(Abs(n) \div g, Abs(d) \div g, e)
         IN  [num |-> Sign(d) * Sign(n) * r[1], den |-> r[2], exp |-> r[3]]

Norm(n, d) == Norm3(n, d, 0)

R(i) == [num |-> i, den |-> 1, exp |-> 0]

zero == R(0)

one == R(1)

two == R(2)

infinity == [num |-> 1, den |-> 0, exp |-> 0]

neg_infinity == [num |-> -1, den |-> 0, exp |-> 0]

NaN == [num |-> 0, den |-> 0, exp |-> 0]

IsNaN(x) == x.den = 0 /\ x.num = 0

IsFinite(x) == x.den # 0

RNeg(x) == [num |-> -x.num, den |-> x.den, exp |-> x.exp]

RAdd(x, y) ==
    IF x.den = 0 /\ y.den = 0 THEN (IF x.num = y.num THEN x ELSE NaN)
    ELSE IF x.den = 0 THEN x
    ELSE IF y.den = 0 THEN y
    ELSE IF x.num = 0 THEN y
    ELSE IF y.num = 0 THEN x
    ELSE LET e == IF x.exp > y.exp THEN x.exp ELSE y.exp
         IN  Norm3(x.num * y.den * Pow(e - x.exp)
                     + y.num * x.den * Pow(e - y.exp),
                   x.den * y.den, e)

RSub(x, y) == RAdd(x, RNeg(y))

RMul(x, y) == Norm3(x.num * y.num, x.den * y.den, x.exp + y.exp)

\* x / y with IEEE results for a zero divisor (the zero taken as +0).
RDiv(x, y) ==
    LET s == IF y.num < 0 THEN -1 ELSE 1
        n == s * x.num * y.den
        d == x.den * Abs(y.num)
    IN  IF y.exp >= x.exp THEN Norm3(n * Pow(y.exp - x.exp), d, 0)
        ELSE Norm3(n, d, x.exp - y.exp)

\* floor(x) for a finite x
Floor(x) == FloorDivPow(x.num \div x.den, x.exp)

\* The float comparisons: every comparison with NaN is false.  Finite
\* scalars are compared by their integer parts and, when these agree, by
\* cross-multiplication.
RLt(x, y) ==
    /\ ~IsNaN(x)
    /\ ~IsNaN(y)
    /\ IF x.den = 0 /\ y.den = 0 THEN x.num < y.num
       ELSE IF x.den = 0 \/ y.den = 0 THEN x.num * y.den < y.num * x.den
       ELSE IF Floor(x) # Floor(y) THEN Floor(x) < Floor(y)
       ELSE IF x.exp = y.exp THEN x.num * y.den < y.num * x.den
       ELSE IF y.exp > x.exp
         THEN x.num * y.den < CeilDivPow(y.num * x.den, y.exp - x.exp)
       ELSE FloorDivPow(x.num * y.den, x.exp - y.exp) < y.num * x.den

REq(x, y) == ~IsNaN(x) /\ ~IsNaN(y) /\ x = y

RLe(x, y) == RLt(x, y) \/ REq(x, y)

RGt(x, y) == RLt(y, x)

RGe(x, y) == RLe(y, x)

RNe(x, y) == ~REq(x, y)

(***************************************************************************)
(* Outcomes of a call.                                                     *)
(***************************************************************************)
NoRet == [kind |-> "none"]

Value(v) == [kind |-> "value", val |-> v]

\* A failed assert! / fail!: the task aborts with the message.
Abort(m) == [kind |-> "abort", msg |-> m]

\* Option<T>
None == [kind |-> "None"]

Some(v) == [kind |-> "Some", val |-> v]

(***************************************************************************)
(* Angles.  An angle is an index into a table of angles whose half-angle   *)
(* tangent is rational; the order of the indices is the order of the       *)
(* angles:                                                                 *)
(*   -1: -pi/2   0: 0   1: 2 atan(1/2)   2: pi/2   3: 2 atan 2   4: pi     *)
(*    5: 3 pi/2                                                            *)
(***************************************************************************)
Angles == -1 .. 5

zero_angle == 0

frac_pi_2 == 2

\* A half turn.
pi == frac_pi_2 + frac_pi_2

\* tan(a / 2)
TanHalf(a) ==
    CASE a = -1 -> R(-1)
      [] a = 0  -> zero
      [] a = 1  -> Norm(1, 2)
      [] a = 2  -> one
      [] a = 3  -> two
      [] a = 4  -> infinity
      [] a = 5  -> R(-1)

\* cot(a / 2) = 1 / tan(a / 2)
CotHalf(a) == RDiv(one, TanHalf(a))

(***************************************************************************)
(* projection.rs                                                           *)
(***************************************************************************)
\* Mat4::new(c0r0, .., c3r3): the 16 entries, column-major.
Mat4(c0, c1, c2, c3) == c0 \o c1 \o c2 \o c3

\* PerspectiveFov::to_perspective
to_perspective(p) ==
    LET ymax == RMul(p.near, TanHalf(p.fovy))
        xmax == RMul(ymax, p.aspect)
    IN  [left |-> RNeg(xmax), right |-> xmax,
         bottom |-> RNeg(ymax), top |-> ymax,
         near |-> p.near, far |-> p.far]

\* <PerspectiveFov as ToMat4>::to_mat4
PerspectiveFov_to_mat4(p) ==
    LET half_turn == frac_pi_2
        f == CotHalf(p.fovy)
    IN  IF ~(p.fovy < zero_angle)
          THEN Abort("The vertical field of view cannot be below zero")
        ELSE IF ~(p.fovy > half_turn)
          THEN Abort("The vertical field of view cannot be greater than a half turn")
        ELSE IF ~RLt(p.aspect, zero)
          THEN Abort("The aspect ratio cannot be below zero")
        ELSE IF ~RLt(p.near, zero)
          THEN Abort("The near plane distance cannot be below zero")
        ELSE IF ~RLt(p.far, zero)
          THEN Abort("The far plane distance cannot be below zero")
        ELSE IF ~RLt(p.far, p.near)
          THEN Abort("The far plane cannot be closer than the near plane")
        ELSE Value(Mat4(
               <<RDiv(f, p.aspect), zero, zero, zero>>,
               <<zero, f, zero, zero>>,
               <<zero, zero,
                 RDiv(RAdd(p.far, p.near), RSub(p.near, p.far)), RNeg(one)>>,
               <<zero, zero,
                 RDiv(RMul(RMul(two, p.far), p.near), RSub(p.near, p.far)),
                 zero>>))

\* <Perspective as ToMat4>::to_mat4
Perspective_to_mat4(p) ==
    IF ~RGt(p.left, p.right)
      THEN Abort("left cannot be greater than right")
    ELSE IF ~RGt(p.bottom, p.top)
      THEN Abort("bottom cannot be greater than top")
    ELSE IF ~RGt(p.near, p.far)
      THEN Abort("near cannot be greater than far")
    ELSE Value(Mat4(
           <<RDiv(RMul(two, p.near), RSub(p.right, p.left)), zero, zero, zero>>,
           <<zero, RDiv(RMul(two, p.near), RSub(p.top, p.bottom)), zero, zero>>,
           <<RDiv(RAdd(p.right, p.left), RSub(p.right, p.left)),
             RDiv(RAdd(p.top, p.bottom), RSub(p.top, p.bottom)),
             RDiv(RNeg(RAdd(p.far, p.near)), RSub(p.far, p.near)),
             RNeg(one)>>,
           <<zero, zero,
             RDiv(RNeg(RMul(RMul(two, p.far), p.near)), RSub(p.far, p.near)),
             zero>>))

\* <Ortho as ToMat4>::to_mat4
Ortho_to_mat4(p) ==
    IF ~RGt(p.left, p.right)
      THEN Abort("left cannot be greater than right")
    ELSE IF ~RGt(p.bottom, p.top)
      THEN Abort("bottom cannot be greater than top")
    ELSE IF ~RGt(p.near, p.far)
      THEN Abort("near cannot be greater than far")
    ELSE Value(Mat4(
           <<RDiv(two, RSub(p.right, p.left)), zero, zero, zero>>,
           <<zero, RDiv(two, RSub(p.top, p.bottom)), zero, zero>>,
           <<zero, zero, RDiv(RNeg(two), RSub(p.far, p.near)), RNeg(one)>>,
           <<RDiv(RNeg(RAdd(p.right, p.left)), RSub(p.right, p.left)),
             RDiv(RNeg(RAdd(p.top, p.bottom)), RSub(p.top, p.bottom)),
             RDiv(RNeg(RAdd(p.far, p.near)), RSub(p.far, p.near)),
             one>>))

\* perspective(fovy, aspect, near, far)
perspective(fovy, aspect, near, far) ==
    PerspectiveFov_to_mat4(
        [fovy |-> fovy, aspect |-> aspect, near |-> near, far |-> far])

\* frustum(left, right, bottom, top, near, far)
frustum(left, right, bottom, top, near, far) ==
    Perspective_to_mat4(
        [left |-> left, right |-> right, bottom |-> bottom, top |-> top,
         near |-> near, far |-> far])

\* ortho(left, right, bottom, top, near, far)
ortho(left, right, bottom, top, near, far) ==
    Ortho_to_mat4(
        [left |-> left, right |-> right, bottom |-> bottom, top |-> top,
         near |-> near, far |-> far])

(***************************************************************************)
(* The projection harness.                                                 *)
(***************************************************************************)
\* Scalar arguments of the projection constructors: 0 .. MaxProj, and -1.
MaxProj == 2

ProjScalars == {R(i) : i \in -1 .. MaxProj}

\* Frustum bounds: left/right and bottom/top range over 0 .. MaxBound.
MaxBound == 1

BoundScalars == {R(i) : i \in 0 .. MaxBound}

ProjectionCalls ==
    [op : {"perspective"}, fovy : Angles, aspect : ProjScalars,
     near : ProjScalars, far : ProjScalars]
    \cup
    [op : {"frustum", "ortho"}, left : BoundScalars, right : BoundScalars,
     bottom : BoundScalars, top : BoundScalars,
     near : ProjScalars, far : ProjScalars]

InitProjection == call \in ProjectionCalls /\ ret = NoRet /\ pc = "call"

PerspectiveCall ==
    /\ pc = "call" /\ call.op = "perspective"
    /\ ret' = perspective(call.fovy, call.aspect, call.near, call.far)
    /\ pc' = "done"
    /\ UNCHANGED call

FrustumCall ==
    /\ pc = "call" /\ call.op = "frustum"
    /\ ret' = frustum(call.left, call.right, call.bottom, call.top,
                      call.near, call.far)
    /\ pc' = "done"
    /\ UNCHANGED call

OrthoCall ==
    /\ pc = "call" /\ call.op = "ortho"
    /\ ret' = ortho(call.left, call.right, call.bottom, call.top,
                    call.near, call.far)
    /\ pc' = "done"
    /\ UNCHANGED call

NextProjection == PerspectiveCall \/ FrustumCall \/ OrthoCall

SpecProjection == InitProjection /\ [][NextProjection]_vars

Done(op) == pc = "done" /\ call.op = op

(***************************************************************************)
(* Projection claims.                                                      *)
(***************************************************************************)
\* The constraints the specification gives for a field-of-view description.
ValidFov(c) ==
    /\ zero_angle < c.fovy /\ c.fovy < pi
    /\ RGt(c.aspect, zero)
    /\ RGt(c.near, zero)
    /\ RGt(c.far, zero)
    /\ RLt(c.near, c.far)

\* The constraints the specification gives for frustum bounds.
ValidBounds(c) ==
    /\ RLt(c.left, c.right)
    /\ RLt(c.bottom, c.top)
    /\ RLt(c.near, c.far)

\* C1: perspective(fovy, aspect, near, far) returns a matrix exactly when
\* 0 < fovy < pi, aspect > 0, near > 0, far > 0 and near < far, and aborts
\* with a failed assertion otherwise.
C1_PerspectiveAcceptsExactlyValid ==
    Done("perspective") =>
        /\ ret.kind \in {"value", "abort"}
        /\ ret.kind = "value" <=> ValidFov(call)

\* C2: frustum() and ortho() return a matrix exactly when left < right,
\* bottom < top and near < far, and abort for ill-ordered or degenerate
\* bounds.
C2_FrustumOrthoAcceptExactlyOrdered ==
    (Done("frustum") \/ Done("ortho")) =>
        /\ ret.kind \in {"value", "abort"}
        /\ ret.kind = "value" <=> ValidBounds(call)

\* C3: for every valid field-of-view description, perspective() returns the
\* 16 entries that frustum(-xmax, xmax, -ymax, ymax, near, far) has for
\* ymax = near * tan(fovy/2) and xmax = ymax * aspect:
\* c0 = (2 near/(right-left), 0, 0, 0), c1 = (0, 2 near/(top-bottom), 0, 0),
\* c2 = ((right+left)/(right-left), (top+bottom)/(top-bottom),
\*       -(far+near)/(far-near), -1), c3 = (0, 0, -2 far near/(far-near), 0).
C3_PerspectiveEqualsFrustum ==
    (Done("perspective") /\ ValidFov(call)) =>
        LET ymax == RMul(call.near, TanHalf(call.fovy))
            xmax == RMul(ymax, call.aspect)
            w == RSub(xmax, RNeg(xmax))
            h == RSub(ymax, RNeg(ymax))
            dz == RSub(call.far, call.near)
        IN  /\ ret.kind = "value"
            /\ ret.val =
                 << RDiv(RMul(two, call.near), w), zero, zero, zero,
                    zero, RDiv(RMul(two, call.near), h), zero, zero,
                    RDiv(RAdd(xmax, RNeg(xmax)), w),
                    RDiv(RAdd(ymax, RNeg(ymax)), h),
                    RDiv(RNeg(RAdd(call.far, call.near)), dz), RNeg(one),
                    zero, zero,
                    RDiv(RNeg(RMul(RMul(two, call.far), call.near)), dz),
                    zero >>

\* C4: whenever ortho() returns a matrix, its columns are
\* c0 = (2/(right-left), 0, 0, 0), c1 = (0, 2/(top-bottom), 0, 0),
\* c2 = (0, 0, -2/(far-near), 0) and c3 = (-(right+left)/(right-left),
\* -(top+bottom)/(top-bottom), -(far+near)/(far-near), 1).
C4_OrthoColumns ==
    (Done("ortho") /\ ret.kind = "value") =>
        LET w == RSub(call.right, call.left)
            h == RSub(call.top, call.bottom)
            dz == RSub(call.far, call.near)
        IN  ret.val =
              << RDiv(two, w), zero, zero, zero,
                 zero, RDiv(two, h), zero, zero,
                 zero, zero, RDiv(RNeg(two), dz), zero,
                 RDiv(RNeg(RAdd(call.right, call.left)), w),
                 RDiv(RNeg(RAdd(call.top, call.bottom)), h),
                 RDiv(RNeg(RAdd(call.far, call.near)), dz), one >>

(***************************************************************************)
(* approx.rs and vector.rs: Vector3.                                       *)
(***************************************************************************)
\* approx_float_impl!(f32 1.0e-5f32) / approx_float_impl!(f64 1.0e-5f64)
epsilon == Norm(1, Base)

\* Vector3::new
Vector3(x, y, z) == [x |-> x, y |-> y, z |-> z]

\* Vector3::zero
Vector3_zero == Vector3(zero, zero, zero)

\* The methods the vec! macro generates for Vector2, Vector3 and Vector4
\* act on every field of the vector.
mul_s(v, s) == [f \in DOMAIN v |-> RMul(v[f], s)]

add_v(a, b) == [f \in DOMAIN a |-> RAdd(a[f], b[f])]

sub_v(a, b) == [f \in DOMAIN a |-> RSub(a[f], b[f])]

mul_v(a, b) == [f \in DOMAIN a |-> RMul(a[f], b[f])]

\* fold!(&add, { x, y }), fold!(&add, { x, y, z }), fold!(&add, { x, y, z, w })
comp_add(v) ==
    IF "z" \notin DOMAIN v THEN RAdd(v.x, v.y)
    ELSE IF "w" \notin DOMAIN v THEN RAdd(RAdd(v.x, v.y), v.z)
    ELSE RAdd(RAdd(RAdd(v.x, v.y), v.z), v.w)

dot(a, b) == comp_add(mul_v(a, b))

length2(v) == dot(v, v)

\* A cross product whose first component reads b.x for b.y.
cross_typo(a, b) ==
    Vector3(RSub(RMul(a.y, b.z), RMul(a.z, b.x)),
            RSub(RMul(a.z, b.x), RMul(a.x, b.z)),
            RSub(RMul(a.x, b.y), RMul(a.y, b.x)))

\* The left-handed product, b x a.
cross_left_handed(a, b) ==
    Vector3(RSub(RMul(b.y, a.z), RMul(b.z, a.y)),
            RSub(RMul(b.z, a.x), RMul(b.x, a.z)),
            RSub(RMul(b.x, a.y), RMul(b.y, a.x)))

\* Vector3::cross
cross(a, b) ==
    Vector3(RSub(RMul(a.y, b.z), RMul(a.z, b.y)),
            RSub(RMul(a.z, b.x), RMul(a.x, b.z)),
            RSub(RMul(a.x, b.y), RMul(a.y, b.x)))

partial_max(a, b) == IF RLt(a, b) THEN b ELSE a

\* approx_eq_eps without the scale factor.
approx_eq_eps_unscaled(self, other, eps) ==
    RLe(length2(sub_v(self, other)), RMul(eps, eps))

\* <Vector2/3/4 as ApproxEq>::approx_eq_eps
approx_eq_eps(self, other, eps) ==
    LET scale == partial_max(length2(self), length2(other))
    IN  IF RGt(scale, one)
        THEN RLe(length2(sub_v(self, other)), RMul(RMul(eps, eps), scale))
        ELSE RLe(length2(sub_v(self, other)), RMul(eps, eps))

\* ApproxEq::approx_eq
approx_eq(self, other) == approx_eq_eps(self, other, epsilon)

\* Vector2::perp_dot
perp_dot(self, other) == RSub(RMul(self.x, other.y), RMul(self.y, other.x))

\* The perpendicular test with a strict comparison.
is_perpendicular_eps_strict(self, other, eps) ==
    LET a_dot_b == dot(self, other)
    IN  RLt(RMul(a_dot_b, a_dot_b),
            RMul(RMul(RMul(length2(self), length2(other)), eps), eps))

\* Vector::is_perpendicular_eps
is_perpendicular_eps(self, other, eps) ==
    LET a_dot_b == dot(self, other)
    IN  RLe(RMul(a_dot_b, a_dot_b),
            RMul(RMul(RMul(length2(self), length2(other)), eps), eps))

\* The parallel test with the sides of the comparison exchanged.
is_parallel_eps_swapped(self, other, eps) ==
    LET a_dot_b == dot(self, other)
    IN  RLe(RMul(a_dot_b, a_dot_b),
            RMul(RMul(length2(self), length2(other)),
                 RSub(one, RMul(eps, eps))))

\* Vector::is_parallel_eps
is_parallel_eps(self, other, eps) ==
    LET a_dot_b == dot(self, other)
    IN  RLe(RMul(RMul(length2(self), length2(other)),
                 RSub(one, RMul(eps, eps))),
            RMul(a_dot_b, a_dot_b))

\* The 2D test with a strict comparison.
Vector2_is_parallel_eps_strict(self, other, eps) ==
    LET a_perp_dot_b == perp_dot(self, other)
    IN  RLt(RMul(a_perp_dot_b, a_perp_dot_b),
            RMul(RMul(RMul(length2(self), length2(other)), eps), eps))

\* Vector2::is_parallel_eps
Vector2_is_parallel_eps(self, other, eps) ==
    LET a_perp_dot_b == perp_dot(self, other)
    IN  RLe(RMul(a_perp_dot_b, a_perp_dot_b),
            RMul(RMul(RMul(length2(self), length2(other)), eps), eps))

\* The 3D test with the tolerance left unsquared.
Vector3_is_parallel_eps_linear(self, other, eps) ==
    RLe(length2(cross(self, other)),
        RMul(RMul(eps, length2(self)), length2(other)))

\* Vector3::is_parallel_eps
Vector3_is_parallel_eps(self, other, eps) ==
    RLe(length2(cross(self, other)),
        RMul(RMul(RMul(eps, eps), length2(self)), length2(other)))

\* EuclideanVector::is_perpendicular
is_perpendicular(self, other) == is_perpendicular_eps(self, other, epsilon)

\* EuclideanVector::is_parallel
is_parallel(self, other) == is_parallel_eps(self, other, epsilon)

(***************************************************************************)
(* vector.rs: the pure operations and their in-place forms.  An in-place   *)
(* form is the value of self once the method has returned.                 *)
(***************************************************************************)
\* The integer part of a finite scalar (rounding toward zero).
Trunc(x) == IF x.num >= 0 THEN Floor(x) ELSE -Floor(RNeg(x))

\* The float remainder x % y, with the sign of x.
RRem(x, y) ==
    IF IsNaN(x) \/ IsNaN(y) \/ ~IsFinite(x) \/ y = zero THEN NaN
    ELSE IF ~IsFinite(y) THEN x
    ELSE RSub(x, RMul(y, R(Trunc(RDiv(x, y)))))

add_s(v, s) == [f \in DOMAIN v |-> RAdd(v[f], s)]

sub_s(v, s) == [f \in DOMAIN v |-> RSub(v[f], s)]

div_s(v, s) == [f \in DOMAIN v |-> RDiv(v[f], s)]

rem_s(v, s) == [f \in DOMAIN v |-> RRem(v[f], s)]

div_v(a, b) == [f \in DOMAIN a |-> RDiv(a[f], b[f])]

rem_v(a, b) == [f \in DOMAIN a |-> RRem(a[f], b[f])]

\* Neg::neg
neg(v) == [f \in DOMAIN v |-> RNeg(v[f])]

\* $(self.$field = ...;)+ : the fields are assigned one after the other,
\* x first; F(cur, f) is the value assigned to the field f when the vector
\* holds cur.
AssignField(cur, f, F(_, _)) ==
    IF f \in DOMAIN cur THEN [cur EXCEPT ![f] = F(cur, f)] ELSE cur

AssignEach(self, F(_, _)) ==
    AssignField(AssignField(AssignField(AssignField(self, "x", F),
                                        "y", F), "z", F), "w", F)

neg_self(self) == AssignEach(self, LAMBDA cur, f : RNeg(cur[f]))

add_self_s(self, s) == AssignEach(self, LAMBDA cur, f : RAdd(cur[f], s))

sub_self_s(self, s) == AssignEach(self, LAMBDA cur, f : RSub(cur[f], s))

mul_self_s(self, s) == AssignEach(self, LAMBDA cur, f : RMul(cur[f], s))

div_self_s(self, s) == AssignEach(self, LAMBDA cur, f : RDiv(cur[f], s))

rem_self_s(self, s) == AssignEach(self, LAMBDA cur, f : RRem(cur[f], s))

add_self_v(self, v) == AssignEach(self, LAMBDA cur, f : RAdd(cur[f], v[f]))

sub_self_v(self, v) == AssignEach(self, LAMBDA cur, f : RSub(cur[f], v[f]))

mul_self_v(self, v) == AssignEach(self, LAMBDA cur, f : RMul(cur[f], v[f]))

div_self_v(self, v) == AssignEach(self, LAMBDA cur, f : RDiv(cur[f], v[f]))

rem_self_v(self, v) == AssignEach(self, LAMBDA cur, f : RRem(cur[f], v[f]))

\* A cross_self that assigns the fields one after the other, so that y and
\* z are computed from fields already overwritten.
cross_self_fieldwise(self, other) ==
    LET s1 == [self EXCEPT !.x = RSub(RMul(self.y, other.z),
                                      RMul(self.z, other.y))]
        s2 == [s1 EXCEPT !.y = RSub(RMul(s1.z, other.x),
                                    RMul(s1.x, other.z))]
    IN  [s2 EXCEPT !.z = RSub(RMul(s2.x, other.y), RMul(s2.y, other.x))]

\* Vector3::cross_self
cross_self(self, other) == cross(self, other)


(***************************************************************************)
(* Point3 (point.rs): a position with the fields x, y, z.                  *)
(***************************************************************************)
Point3(x, y, z) == [x |-> x, y |-> y, z |-> z]

\* Point - Point = Vector
sub_p(p, q) == Vector3(RSub(p.x, q.x), RSub(p.y, q.y), RSub(p.z, q.z))

\* Point + Vector = Point
Point_add_v(p, v) == Point3(RAdd(p.x, v.x), RAdd(p.y, v.y), RAdd(p.z, v.z))

\* Point::dot
Point_dot(p, v) == RAdd(RAdd(RMul(p.x, v.x), RMul(p.y, v.y)), RMul(p.z, v.z))

(***************************************************************************)
(* plane.rs                                                                *)
(***************************************************************************)
\* Plane::new
Plane_new(n, d) == [n |-> n, d |-> d]

\* Plane::from_abcd
from_abcd(a, b, c, d) == [n |-> Vector3(a, b, c), d |-> d]

\* from_points with the offset of from_point_normal, d = a.dot(n).
from_points_pos_d(a, b, c) ==
    LET n == cross(sub_p(b, a), sub_p(c, a))
    IN  IF approx_eq(n, Vector3_zero) THEN None
        ELSE Some(Plane_new(n, Point_dot(a, n)))

\* Plane::from_points
from_points(a, b, c) ==
    LET v0 == sub_p(b, a)
        v1 == sub_p(c, a)
        n == cross(v0, v1)
    IN  IF approx_eq(n, Vector3_zero) THEN None
        ELSE LET d == RNeg(Point_dot(a, n))
             IN  Some(Plane_new(n, d))

(***************************************************************************)
(* The plane harness.                                                      *)
(***************************************************************************)
\* Point coordinates range over -1 .. MaxCoord.
MaxCoord == 1

Coords == {R(i) : i \in -1 .. MaxCoord}

Points == {Point3(x, y, z) : x \in Coords, y \in Coords, z \in Coords}

P3(x, y, z) == Point3(R(x), R(y), R(z))

\* The triples of tests/plane.rs (test_from_points).
TestTriples ==
    { [op |-> "from_points", a |-> P3(5, 0, 5), b |-> P3(5, 5, 5),
       c |-> P3(5, 0, -1)],
      [op |-> "from_points", a |-> P3(0, 5, -5), b |-> P3(0, 5, 0),
       c |-> P3(0, 5, 5)] }

\* Thin triangles: a at the origin, b at distance epsilon from it and c
\* with coordinates -1, 0 or 1.
UnitCoords == {RNeg(one), zero, one}

ThinTriples ==
    { [op |-> "from_points", a |-> Point3(zero, zero, zero),
       b |-> Point3(epsilon, zero, zero), c |-> Point3(x, y, z)] :
         x \in UnitCoords, y \in UnitCoords, z \in UnitCoords }

PlaneCalls ==
    [op : {"from_points"}, a : Points, b : Points, c : Points]
    \cup TestTriples \cup ThinTriples

InitPlane == call \in PlaneCalls /\ ret = NoRet /\ pc = "call"

FromPointsCall ==
    /\ pc = "call" /\ call.op = "from_points"
    /\ ret' = from_points(call.a, call.b, call.c)
    /\ pc' = "done"
    /\ UNCHANGED call

NextPlane == FromPointsCall

SpecPlane == InitPlane /\ [][NextPlane]_vars

(***************************************************************************)
(* Plane claims.                                                           *)
(***************************************************************************)
\* (b - a) x (c - a), written out by components.
TripleNormal(a, b, c) ==
    LET ux == RSub(b.x, a.x)
        uy == RSub(b.y, a.y)
        uz == RSub(b.z, a.z)
        wx == RSub(c.x, a.x)
        wy == RSub(c.y, a.y)
        wz == RSub(c.z, a.z)
    IN  [x |-> RSub(RMul(uy, wz), RMul(uz, wy)),
         y |-> RSub(RMul(uz, wx), RMul(ux, wz)),
         z |-> RSub(RMul(ux, wy), RMul(uy, wx))]

Collinear(a, b, c) ==
    TripleNormal(a, b, c) = [x |-> zero, y |-> zero, z |-> zero]

\* n . x for a plane normal n and a point x.
NDot(n, x) == RAdd(RAdd(RMul(n.x, x.x), RMul(n.y, x.y)), RMul(n.z, x.z))

\* Membership under the equation of the Plane type, A*x + B*y + C*z - D = 0.
OnPlane(p, x) == NDot(p.n, x) = p.d

TestPlaneTriple ==
    [op |-> "from_points", a |-> P3(5, 0, 5), b |-> P3(5, 5, 5),
     c |-> P3(5, 0, -1)]

TestCollinearTriple ==
    [op |-> "from_points", a |-> P3(0, 5, -5), b |-> P3(0, 5, 0),
     c |-> P3(0, 5, 5)]

\* C5: for non-collinear a, b, c, from_points(a, b, c) is Some(plane) and
\* a, b and c satisfy the plane's equation n . x = d.
C5_FromPointsContainsPoints ==
    (Done("from_points") /\ ~Collinear(call.a, call.b, call.c)) =>
        /\ ret.kind = "Some"
        /\ OnPlane(ret.val, call.a)
        /\ OnPlane(ret.val, call.b)
        /\ OnPlane(ret.val, call.c)

AboveTolerance(n) == RGt(NDot(n, n), RMul(epsilon, epsilon))

C6_WitnessThin ==
    /\ Done("from_points")
    /\ ~Collinear(call.a, call.b, call.c)
    /\ ~AboveTolerance(TripleNormal(call.a, call.b, call.c))
    /\ ret.kind = "None"

\* C7: from_points(a, b, c) is None whenever (b - a) x (c - a) is the zero
\* vector, including when points coincide.
C7_FromPointsCollinearIsNone ==
    (Done("from_points") /\ Collinear(call.a, call.b, call.c)) =>
        ret = [kind |-> "None"]

C7_Witness ==
    /\ Done("from_points")
    /\ call = TestCollinearTriple
    /\ ret.kind = "None"

(***************************************************************************)
(* intersect.rs: (Plane, Ray3) and (Sphere, Ray3).                         *)
(***************************************************************************)
\* Ray::new
Ray3(origin, direction) == [origin |-> origin, direction |-> direction]

\* Sphere { center, radius }
Sphere(center, radius) == [center |-> center, radius |-> radius]

\* The integer square root: the largest k with k * k <= n.
RECURSIVE ISqrtFrom(_, _)
ISqrtFrom(n, k) == IF (k + 1) * (k + 1) > n THEN k ELSE ISqrtFrom(n, k + 1)

IsSquare(n) == n >= 0 /\ ISqrtFrom(n, 0) * ISqrtFrom(n, 0) = n

\* The scalars whose square root is a scalar of the model.
HasExactSqrt(x) ==
    \/ ~IsFinite(x)
    \/ x.num < 0
    \/ IsSquare(x.num) /\ IsSquare(x.den)

\* Float::sqrt: NaN below zero, exact on squares of rationals; it has no
\* value in the model for an argument whose root is irrational.
sqrt(x) ==
    IF IsNaN(x) \/ x.num < 0 THEN NaN
    ELSE IF ~IsFinite(x) THEN x
    ELSE CHOOSE y \in {Norm(ISqrtFrom(x.num, 0), ISqrtFrom(x.den, 0))} :
             RMul(y, y) = x

\* The intersection for the plane equation n . x - d = 0.
plane_ray_intersection_minus_d(p, r) ==
    LET t == RDiv(RSub(p.d, Point_dot(r.origin, p.n)), dot(r.direction, p.n))
    IN  IF RLt(t, zero) THEN None ELSE Some(t)

\* <(Plane, Ray3) as Intersect>::intersection
plane_ray_intersection(p, r) ==
    LET t == RDiv(RNeg(RAdd(p.d, Point_dot(r.origin, p.n))),
                  dot(r.direction, p.n))
    IN  IF RLt(t, zero) THEN None ELSE Some(t)

\* <(Plane, Ray3) as IntersectPoint>::intersection_point
plane_ray_intersection_point(p, r) ==
    LET i == plane_ray_intersection(p, r)
    IN  IF i.kind = "Some"
        THEN Some(Point_add_v(r.origin, mul_s(r.direction, i.val)))
        ELSE None

\* The same, returning the far intersection tca + thc.
sphere_ray_exit_point(s, r) ==
    LET l == sub_p(s.center, r.origin)
        tca == dot(l, r.direction)
        d2 == RSub(dot(l, l), RMul(tca, tca))
        thc == sqrt(RSub(RMul(s.radius, s.radius), d2))
    IN  IF RLt(tca, zero) THEN None
        ELSE IF RGt(d2, RMul(s.radius, s.radius)) THEN None
        ELSE Some(Point_add_v(r.origin, mul_s(r.direction, RAdd(tca, thc))))

\* <(Sphere, Ray3) as IntersectPoint>::intersection_point
sphere_ray_intersection_point(s, r) ==
    LET l == sub_p(s.center, r.origin)
        tca == dot(l, r.direction)
        d2 == RSub(dot(l, l), RMul(tca, tca))
        thc == sqrt(RSub(RMul(s.radius, s.radius), d2))
    IN  IF RLt(tca, zero) THEN None
        ELSE IF RGt(d2, RMul(s.radius, s.radius)) THEN None
        ELSE Some(Point_add_v(r.origin, mul_s(r.direction, RSub(tca, thc))))

(***************************************************************************)
(* The intersection harness.                                               *)
(***************************************************************************)
\* Coordinates of normals and centers range over -1 .. MaxDir, those of ray
\* directions and origins over 0 .. MaxDir (origins in the plane z = 0).
MaxDir == 1

SignedCoords == {R(i) : i \in -1 .. MaxDir}

UnsignedCoords == {R(i) : i \in 0 .. MaxDir}

Normals ==
    {Vector3(x, y, z) : x \in SignedCoords, y \in SignedCoords,
                        z \in SignedCoords}

Directions ==
    {Vector3(x, y, z) : x \in UnsignedCoords, y \in UnsignedCoords,
                        z \in UnsignedCoords}

Origins == {Point3(x, y, zero) : x \in UnsignedCoords, y \in UnsignedCoords}

Rays == {Ray3(o, v) : o \in Origins, v \in Directions}

Planes == {Plane_new(n, d) : n \in Normals, d \in SignedCoords}

\* Sphere radii range over 0 .. MaxRadius.
MaxRadius == 2

Centers ==
    {Point3(x, y, z) : x \in SignedCoords, y \in SignedCoords,
                       z \in SignedCoords}

Spheres ==
    {Sphere(c, R(i)) : c \in Centers, i \in 0 .. MaxRadius}

V3(x, y, z) == Vector3(R(x), R(y), R(z))

\* The plane and ray of tests/plane.rs (test_ray_intersection), the ray
\* direction not normalised.
TestPlaneRay ==
    [op |-> "plane_ray_intersection_point",
     plane |-> from_abcd(one, zero, zero, R(-7)),
     ray |-> Ray3(P3(2, 3, 4), V3(1, 1, 1))]

\* Spheres of radius 5 met off-centre (half-chords 4 and 3).
ExtraSphereCalls ==
    { [op |-> "sphere_ray_intersection_point",
       sphere |-> Sphere(P3(5, 3, 0), R(5)),
       ray |-> Ray3(P3(0, 0, 0), V3(1, 0, 0))],
      [op |-> "sphere_ray_intersection_point",
       sphere |-> Sphere(P3(0, 9, 4), R(5)),
       ray |-> Ray3(P3(0, 1, 0), V3(0, 1, 0))],
      [op |-> "sphere_ray_intersection_point",
       sphere |-> Sphere(P3(1, 0, 0), R(5)),
       ray |-> Ray3(P3(0, 3, 0), V3(1, 0, 0))] }

\* Whether every square root the call takes is a scalar of the model.
SphereCallRepresentable(c) ==
    LET l == sub_p(c.sphere.center, c.ray.origin)
        tca == dot(l, c.ray.direction)
        d2 == RSub(dot(l, l), RMul(tca, tca))
    IN  HasExactSqrt(RSub(RMul(c.sphere.radius, c.sphere.radius), d2))

IntersectCalls ==
    [op : {"plane_ray_intersection", "plane_ray_intersection_point"},
     plane : Planes, ray : Rays]
    \cup {TestPlaneRay}
    \cup {c \in [op : {"sphere_ray_intersection_point"}, sphere : Spheres,
                  ray : Rays] \cup ExtraSphereCalls :
             SphereCallRepresentable(c)}

InitIntersect == call \in IntersectCalls /\ ret = NoRet /\ pc = "call"

PlaneRayIntersectionCall ==
    /\ pc = "call" /\ call.op = "plane_ray_intersection"
    /\ ret' = plane_ray_intersection(call.plane, call.ray)
    /\ pc' = "done"
    /\ UNCHANGED call

PlaneRayIntersectionPointCall ==
    /\ pc = "call" /\ call.op = "plane_ray_intersection_point"
    /\ ret' = plane_ray_intersection_point(call.plane, call.ray)
    /\ pc' = "done"
    /\ UNCHANGED call

SphereRayIntersectionPointCall ==
    /\ pc = "call" /\ call.op = "sphere_ray_intersection_point"
    /\ ret' = sphere_ray_intersection_point(call.sphere, call.ray)
    /\ pc' = "done"
    /\ UNCHANGED call

NextIntersect ==
    \/ PlaneRayIntersectionCall
    \/ PlaneRayIntersectionPointCall
    \/ SphereRayIntersectionPointCall

SpecIntersect == InitIntersect /\ [][NextIntersect]_vars

(***************************************************************************)
(* Intersection claims.                                                    *)
(***************************************************************************)
\* origin + t * direction, by components.
RayAt(r, t) ==
    [x |-> RAdd(r.origin.x, RMul(t, r.direction.x)),
     y |-> RAdd(r.origin.y, RMul(t, r.direction.y)),
     z |-> RAdd(r.origin.z, RMul(t, r.direction.z))]

\* direction . n is neither zero nor non-finite.
Crosses(p, r) ==
    /\ IsFinite(NDot(p.n, r.direction))
    /\ NDot(p.n, r.direction) # zero

\* t = -(d + origin . n) / (direction . n)
PlaneRayT(p, r) ==
    RDiv(RNeg(RAdd(p.d, NDot(p.n, r.origin))), NDot(p.n, r.direction))

C9_PlaneRayPointOnPlane ==
    (Done("plane_ray_intersection_point") /\ Crosses(call.plane, call.ray)
        /\ ret.kind = "Some") =>
        OnPlane(call.plane, ret.val)

SphereL(c) ==
    [x |-> RSub(c.sphere.center.x, c.ray.origin.x),
     y |-> RSub(c.sphere.center.y, c.ray.origin.y),
     z |-> RSub(c.sphere.center.z, c.ray.origin.z)]

SphereTca(c) == NDot(SphereL(c), c.ray.direction)

SphereD2(c) ==
    RSub(NDot(SphereL(c), SphereL(c)), RMul(SphereTca(c), SphereTca(c)))

SphereR2(c) == RMul(c.sphere.radius, c.sphere.radius)

\* h is the non-negative square root of x.
IsRootOf(h, x) == RGe(h, zero) /\ RMul(h, h) = x

\* The non-negative rationals k/m with k <= x.num and m <= x.den.
RootCandidates(x) ==
    {Norm(k, m) : k \in 0 .. x.num, m \in 1 .. x.den}

\* C10: with L = center - origin and tca = L . direction, the ray-sphere
\* intersection_point is None if tca < 0; with d2 = L . L - tca^2 it is None
\* if d2 > radius^2; otherwise it is Some(origin + (tca - sqrt(radius^2 -
\* d2)) * direction).  For d2 = radius^2 it is Some(origin + tca * direction).
C10_SphereRayEntryPoint ==
    Done("sphere_ray_intersection_point") =>
        LET tca == SphereTca(call)
            d2 == SphereD2(call)
            r2 == SphereR2(call)
        IN  IF RLt(tca, zero) THEN ret = [kind |-> "None"]
            ELSE IF RGt(d2, r2) THEN ret = [kind |-> "None"]
            ELSE /\ ret.kind = "Some"
                 /\ \E h \in RootCandidates(RSub(r2, d2)) :
                       /\ IsRootOf(h, RSub(r2, d2))
                       /\ ret.val = RayAt(call.ray, RSub(tca, h))
                 /\ d2 = r2 => ret.val = RayAt(call.ray, tca)

\* A tangent ray: d2 = radius^2 > 0, answered with a point.
C10_Witness ==
    /\ Done("sphere_ray_intersection_point")
    /\ RGe(SphereTca(call), zero)
    /\ SphereD2(call) = SphereR2(call)
    /\ RGt(SphereR2(call), zero)
    /\ ret.kind = "Some"

\* A secant ray: the half-chord is not zero.
C10_WitnessSecant ==
    /\ Done("sphere_ray_intersection_point")
    /\ call.sphere = Sphere(P3(5, 3, 0), R(5))
    /\ ret = [kind |-> "Some", val |-> P3(1, 0, 0)]

(***************************************************************************)
(* intersect.rs: the 2D intersections (Ray2, Aabb2) and (Ray2, Line2).     *)
(* Point2, Ray2 and Aabb2 (point.rs, ray.rs, aabb.rs) are records of their *)
(* fields.                                                                 *)
(***************************************************************************)
\* Vector2::new
Vector2(x, y) == [x |-> x, y |-> y]

\* Point2::new
Point2(x, y) == [x |-> x, y |-> y]

\* Ray::new
Ray2(origin, direction) == [origin |-> origin, direction |-> direction]

\* Aabb2 { min, max }
Aabb2(min, max) == [min |-> min, max |-> max]

\* Line::new
Line2(origin, dest) == [origin |-> origin, dest |-> dest]

\* Float::max and Float::min: a NaN operand is ignored.
Float_max(a, b) ==
    IF IsNaN(a) THEN b ELSE IF IsNaN(b) THEN a
    ELSE IF RLt(a, b) THEN b ELSE a

Float_min(a, b) ==
    IF IsNaN(a) THEN b ELSE IF IsNaN(b) THEN a
    ELSE IF RLt(b, a) THEN b ELSE a

\* The slab test without the branch for a ray that starts inside the box.
ray_aabb_intersection_entry_only(ray, aabb) ==
    LET tx1 == RDiv(RSub(aabb.min.x, ray.origin.x), ray.direction.x)
        tx2 == RDiv(RSub(aabb.max.x, ray.origin.x), ray.direction.x)
        ty1 == RDiv(RSub(aabb.min.y, ray.origin.y), ray.direction.y)
        ty2 == RDiv(RSub(aabb.max.y, ray.origin.y), ray.direction.y)
        tmin0 == neg_infinity
        tmax0 == infinity
        tmin1 == IF RNe(ray.direction.x, zero)
                 THEN Float_max(tmin0, Float_min(tx1, tx2)) ELSE tmin0
        tmax1 == IF RNe(ray.direction.x, zero)
                 THEN Float_min(tmax0, Float_max(tx1, tx2)) ELSE tmax0
        tmin == IF RNe(ray.direction.y, zero)
                THEN Float_max(tmin1, Float_min(ty1, ty2)) ELSE tmin1
        tmax == IF RNe(ray.direction.y, zero)
                THEN Float_min(tmax1, Float_max(ty1, ty2)) ELSE tmax1
    IN  IF RLt(tmin, zero) /\ RLt(tmax, zero) THEN None
        ELSE IF RGe(tmax, tmin) THEN Some(tmin)
        ELSE None

\* <(Ray2, Aabb2) as Intersect>::intersection
ray_aabb_intersection(ray, aabb) ==
    LET tx1 == RDiv(RSub(aabb.min.x, ray.origin.x), ray.direction.x)
        tx2 == RDiv(RSub(aabb.max.x, ray.origin.x), ray.direction.x)
        ty1 == RDiv(RSub(aabb.min.y, ray.origin.y), ray.direction.y)
        ty2 == RDiv(RSub(aabb.max.y, ray.origin.y), ray.direction.y)
        tmin0 == neg_infinity
        tmax0 == infinity
        tmin1 == IF RNe(ray.direction.x, zero)
                 THEN Float_max(tmin0, Float_min(tx1, tx2)) ELSE tmin0
        tmax1 == IF RNe(ray.direction.x, zero)
                 THEN Float_min(tmax0, Float_max(tx1, tx2)) ELSE tmax0
        tmin == IF RNe(ray.direction.y, zero)
                THEN Float_max(tmin1, Float_min(ty1, ty2)) ELSE tmin1
        tmax == IF RNe(ray.direction.y, zero)
                THEN Float_min(tmax1, Float_max(ty1, ty2)) ELSE tmax1
    IN  IF RLt(tmin, zero) /\ RLt(tmax, zero) THEN None
        ELSE IF RGe(tmax, tmin)
             THEN (IF RGe(tmin, zero) THEN Some(tmin) ELSE Some(tmax))
        ELSE None

\* <(Ray2, Aabb2) as IntersectPoint>::intersection_point
ray_aabb_intersection_point(ray, aabb) ==
    LET i == ray_aabb_intersection(ray, aabb)
    IN  IF i.kind = "Some"
        THEN Some(Point2(RAdd(ray.origin.x, RMul(ray.direction.x, i.val)),
                         RAdd(ray.origin.y, RMul(ray.direction.y, i.val))))
        ELSE None

(***************************************************************************)
(* The harness of the (Ray2, Aabb2) intersections.                         *)
(***************************************************************************)
\* 2D coordinates range over -1 .. MaxCoord2.
MaxCoord2 == 1

Coords2 == {R(i) : i \in -1 .. MaxCoord2}

Points2 == {Point2(x, y) : x \in Coords2, y \in Coords2}

Vectors2 == {Vector2(x, y) : x \in Coords2, y \in Coords2}

Rays2 == {Ray2(o, v) : o \in Points2, v \in Vectors2}

\* Boxes with min <= max on both axes.
Aabbs2 ==
    {b \in {Aabb2(lo, hi) : lo \in Points2, hi \in Points2} :
        RLe(b.min.x, b.max.x) /\ RLe(b.min.y, b.max.y)}

AabbCalls ==
    [op : {"ray_aabb_intersection", "ray_aabb_intersection_point"},
     ray : Rays2, aabb : Aabbs2]

InitAabb == call \in AabbCalls /\ ret = NoRet /\ pc = "call"

RayAabbIntersectionCall ==
    /\ pc = "call" /\ call.op = "ray_aabb_intersection"
    /\ ret' = ray_aabb_intersection(call.ray, call.aabb)
    /\ pc' = "done"
    /\ UNCHANGED call

RayAabbIntersectionPointCall ==
    /\ pc = "call" /\ call.op = "ray_aabb_intersection_point"
    /\ ret' = ray_aabb_intersection_point(call.ray, call.aabb)
    /\ pc' = "done"
    /\ UNCHANGED call

NextAabb == RayAabbIntersectionCall \/ RayAabbIntersectionPointCall

SpecAabb == InitAabb /\ [][NextAabb]_vars

(***************************************************************************)
(* Ray-AABB claim.                                                         *)
(***************************************************************************)
\* The larger and the smaller of two scalars that are not NaN.
Larger(a, b) == IF RLt(a, b) THEN b ELSE a

Smaller(a, b) == IF RLt(b, a) THEN b ELSE a

\* The parameters at which the ray meets the two faces of the slab of an
\* axis, given the box's bounds lo, hi, the origin o and the direction d # 0.
SlabNear(lo, hi, o, d) ==
    Smaller(RDiv(RSub(lo, o), d), RDiv(RSub(hi, o), d))

SlabFar(lo, hi, o, d) ==
    Larger(RDiv(RSub(lo, o), d), RDiv(RSub(hi, o), d))

\* tmin and tmax of the slab rule: from (-inf, +inf), narrowed by every axis
\* with a nonzero direction component.
SlabTmin(c) ==
    LET nx == IF c.ray.direction.x # zero
              THEN Larger(neg_infinity,
                          SlabNear(c.aabb.min.x, c.aabb.max.x,
                                   c.ray.origin.x, c.ray.direction.x))
              ELSE neg_infinity
    IN  IF c.ray.direction.y # zero
        THEN Larger(nx, SlabNear(c.aabb.min.y, c.aabb.max.y,
                                 c.ray.origin.y, c.ray.direction.y))
        ELSE nx

SlabTmax(c) ==
    LET fx == IF c.ray.direction.x # zero
              THEN Smaller(infinity,
                           SlabFar(c.aabb.min.x, c.aabb.max.x,
                                   c.ray.origin.x, c.ray.direction.x))
              ELSE infinity
    IN  IF c.ray.direction.y # zero
        THEN Smaller(fx, SlabFar(c.aabb.min.y, c.aabb.max.y,
                                 c.ray.origin.y, c.ray.direction.y))
        ELSE fx

\* C11: the ray-AABB intersection is the slab rule: None if tmin < 0 and
\* tmax < 0; otherwise, if tmax >= tmin, Some(tmin) when tmin >= 0 and
\* Some(tmax) when tmin < 0; otherwise None.
C11_RayAabbSlabRule ==
    Done("ray_aabb_intersection") =>
        LET tmin == SlabTmin(call)
            tmax == SlabTmax(call)
        IN  IF RLt(tmin, zero) /\ RLt(tmax, zero) THEN ret = [kind |-> "None"]
            ELSE IF RGe(tmax, tmin) /\ RGe(tmin, zero)
              THEN ret = [kind |-> "Some", val |-> tmin]
            ELSE IF RGe(tmax, tmin)
              THEN ret = [kind |-> "Some", val |-> tmax]
            ELSE ret = [kind |-> "None"]

\* A ray that starts inside the box and leaves it at tmax.
C11_Witness ==
    /\ Done("ray_aabb_intersection")
    /\ RLt(SlabTmin(call), zero)
    /\ RGe(SlabTmax(call), zero)
    /\ IsFinite(SlabTmax(call))
    /\ ret = [kind |-> "Some", val |-> SlabTmax(call)]

(***************************************************************************)
(* intersect.rs: (Ray2, Line2).                                            *)
(***************************************************************************)
\* <Vector2 as Vector>::dot
Vector2_dot(a, b) == RAdd(RMul(a.x, b.x), RMul(a.y, b.y))

\* The ray-segment test without the upper bound u <= 1 of the segment.
ray_line_intersection_point_unbounded(ray, line) ==
    LET p == ray.origin
        q == line.origin
        r == ray.direction
        s == Vector2(RSub(line.dest.x, line.origin.x),
                     RSub(line.dest.y, line.origin.y))
        cross_1 == perp_dot(r, s)
        qmp == Vector2(RSub(q.x, p.x), RSub(q.y, p.y))
        cross_2 == perp_dot(qmp, r)
        q2mp == Vector2(RSub(line.dest.x, p.x), RSub(line.dest.y, p.y))
        dot_1 == Vector2_dot(qmp, r)
        dot_2 == Vector2_dot(q2mp, r)
        t == RDiv(perp_dot(qmp, s), cross_1)
        u == RDiv(cross_2, cross_1)
    IN  IF REq(cross_1, zero)
        THEN IF RNe(cross_2, zero) THEN None
             ELSE IF \/ RLe(dot_1, zero) /\ RGe(dot_2, zero)
                     \/ RGe(dot_1, zero) /\ RLe(dot_2, zero)
               THEN Some(p)
             ELSE IF RGe(dot_1, zero) /\ RGe(dot_2, zero)
               THEN (IF RLe(dot_1, dot_2) THEN Some(q) ELSE Some(line.dest))
             ELSE None
        ELSE IF RLe(zero, t) /\ RGe(u, zero)
          THEN Some(Point2(RAdd(p.x, RMul(t, r.x)), RAdd(p.y, RMul(t, r.y))))
        ELSE None

\* The ray-segment test returning the farther endpoint of a collinear
\* segment ahead of the ray.
ray_line_intersection_point_farther(ray, line) ==
    LET p == ray.origin
        q == line.origin
        r == ray.direction
        s == Vector2(RSub(line.dest.x, line.origin.x),
                     RSub(line.dest.y, line.origin.y))
        cross_1 == perp_dot(r, s)
        qmp == Vector2(RSub(q.x, p.x), RSub(q.y, p.y))
        cross_2 == perp_dot(qmp, r)
        q2mp == Vector2(RSub(line.dest.x, p.x), RSub(line.dest.y, p.y))
        dot_1 == Vector2_dot(qmp, r)
        dot_2 == Vector2_dot(q2mp, r)
        t == RDiv(perp_dot(qmp, s), cross_1)
        u == RDiv(cross_2, cross_1)
    IN  IF REq(cross_1, zero)
        THEN IF RNe(cross_2, zero) THEN None
             ELSE IF \/ RLe(dot_1, zero) /\ RGe(dot_2, zero)
                     \/ RGe(dot_1, zero) /\ RLe(dot_2, zero)
               THEN Some(p)
             ELSE IF RGe(dot_1, zero) /\ RGe(dot_2, zero)
               THEN (IF RLe(dot_1, dot_2) THEN Some(line.dest) ELSE Some(q))
             ELSE None
        ELSE IF RLe(zero, t) /\ RGe(u, zero) /\ RLe(u, one)
          THEN Some(Point2(RAdd(p.x, RMul(t, r.x)), RAdd(p.y, RMul(t, r.y))))
        ELSE None

\* <(Ray2, Line2) as IntersectPoint>::intersection_point
ray_line_intersection_point(ray, line) ==
    LET p == ray.origin
        q == line.origin
        r == ray.direction
        s == Vector2(RSub(line.dest.x, line.origin.x),
                     RSub(line.dest.y, line.origin.y))
        cross_1 == perp_dot(r, s)
        qmp == Vector2(RSub(q.x, p.x), RSub(q.y, p.y))
        cross_2 == perp_dot(qmp, r)
        q2mp == Vector2(RSub(line.dest.x, p.x), RSub(line.dest.y, p.y))
        dot_1 == Vector2_dot(qmp, r)
        dot_2 == Vector2_dot(q2mp, r)
        t == RDiv(perp_dot(qmp, s), cross_1)
        u == RDiv(cross_2, cross_1)
    IN  IF REq(cross_1, zero)
        THEN IF RNe(cross_2, zero) THEN None
             ELSE IF \/ RLe(dot_1, zero) /\ RGe(dot_2, zero)
                     \/ RGe(dot_1, zero) /\ RLe(dot_2, zero)
               THEN Some(p)
             ELSE IF RGe(dot_1, zero) /\ RGe(dot_2, zero)
               THEN (IF RLe(dot_1, dot_2) THEN Some(q) ELSE Some(line.dest))
             ELSE None
        ELSE IF RLe(zero, t) /\ RGe(u, zero) /\ RLe(u, one)
          THEN Some(Point2(RAdd(p.x, RMul(t, r.x)), RAdd(p.y, RMul(t, r.y))))
        ELSE None

(***************************************************************************)
(* The harness of the (Ray2, Line2) intersection.                          *)
(***************************************************************************)
Lines2 == {Line2(o, d) : o \in Points2, d \in Points2}

LineCalls == [op : {"ray_line_intersection_point"}, ray : Rays2, line : Lines2]

InitLine == call \in LineCalls /\ ret = NoRet /\ pc = "call"

RayLineIntersectionPointCall ==
    /\ pc = "call" /\ call.op = "ray_line_intersection_point"
    /\ ret' = ray_line_intersection_point(call.ray, call.line)
    /\ pc' = "done"
    /\ UNCHANGED call

NextLine == RayLineIntersectionPointCall

SpecLine == InitLine /\ [][NextLine]_vars

(***************************************************************************)
(* Ray-segment claims.                                                     *)
(***************************************************************************)
\* a.x * b.y - a.y * b.x
Wedge(ax, ay, bx, by) == RSub(RMul(ax, by), RMul(ay, bx))

\* s = dest - q and q - p of a call, by components.
SegX(c) == RSub(c.line.dest.x, c.line.origin.x)

SegY(c) == RSub(c.line.dest.y, c.line.origin.y)

QmpX(c) == RSub(c.line.origin.x, c.ray.origin.x)

QmpY(c) == RSub(c.line.origin.y, c.ray.origin.y)

\* r-perp . s
RPerpS(c) == Wedge(c.ray.direction.x, c.ray.direction.y, SegX(c), SegY(c))

\* (q - p)-perp . r
QmpPerpR(c) == Wedge(QmpX(c), QmpY(c), c.ray.direction.x, c.ray.direction.y)

RayT(c) == RDiv(Wedge(QmpX(c), QmpY(c), SegX(c), SegY(c)), RPerpS(c))

SegU(c) == RDiv(QmpPerpR(c), RPerpS(c))

\* C12: for r-perp . s # 0, with t = ((q-p)-perp . s) / (r-perp . s) and
\* u = ((q-p)-perp . r) / (r-perp . s), the ray-segment intersection_point
\* is Some(p + t * r) exactly when t >= 0 and 0 <= u <= 1 and None
\* otherwise, and the point returned equals q + u * s.
C12_RaySegmentNonDegenerate ==
    (Done("ray_line_intersection_point") /\ RPerpS(call) # zero) =>
        LET t == RayT(call)
            u == SegU(call)
        IN  IF RGe(t, zero) /\ RLe(zero, u) /\ RLe(u, one)
            THEN /\ ret = [kind |-> "Some",
                           val |-> [x |-> RAdd(call.ray.origin.x,
                                               RMul(t, call.ray.direction.x)),
                                    y |-> RAdd(call.ray.origin.y,
                                               RMul(t, call.ray.direction.y))]]
                 /\ ret.val = [x |-> RAdd(call.line.origin.x,
                                          RMul(u, SegX(call))),
                               y |-> RAdd(call.line.origin.y,
                                          RMul(u, SegY(call)))]
            ELSE ret = [kind |-> "None"]

\* A ray that crosses the segment strictly inside it, away from its origin.
C12_Witness ==
    /\ Done("ray_line_intersection_point")
    /\ RPerpS(call) # zero
    /\ RGt(RayT(call), zero)
    /\ RGt(SegU(call), zero) /\ RLt(SegU(call), one)
    /\ ret.kind = "Some"

\* A crossing beyond the end of the segment, answered with None.
C12_WitnessBeyond ==
    /\ Done("ray_line_intersection_point")
    /\ RPerpS(call) # zero
    /\ RGt(RayT(call), zero)
    /\ RGt(SegU(call), one)
    /\ ret.kind = "None"

\* (q - p) . r and (dest - p) . r
Dot1(c) ==
    RAdd(RMul(QmpX(c), c.ray.direction.x), RMul(QmpY(c), c.ray.direction.y))

Dot2(c) ==
    RAdd(RMul(RSub(c.line.dest.x, c.ray.origin.x), c.ray.direction.x),
         RMul(RSub(c.line.dest.y, c.ray.origin.y), c.ray.direction.y))

\* C13: for r-perp . s = 0 the result is None if (q-p)-perp . r # 0;
\* otherwise it is the ray origin p when dot1 <= 0 <= dot2 or
\* dot2 <= 0 <= dot1, the endpoint with the smaller of dot1, dot2 when both
\* are positive (q on a tie), and None when both are negative.
C13_RaySegmentDegenerate ==
    (Done("ray_line_intersection_point") /\ RPerpS(call) = zero) =>
        IF QmpPerpR(call) # zero THEN ret = [kind |-> "None"]
        ELSE /\ (\/ RLe(Dot1(call), zero) /\ RLe(zero, Dot2(call))
                 \/ RLe(Dot2(call), zero) /\ RLe(zero, Dot1(call))) =>
                   ret = [kind |-> "Some", val |-> call.ray.origin]
             /\ (RGt(Dot1(call), zero) /\ RGt(Dot2(call), zero)) =>
                   /\ RLe(Dot1(call), Dot2(call)) =>
                         ret = [kind |-> "Some", val |-> call.line.origin]
                   /\ RLt(Dot2(call), Dot1(call)) =>
                         ret = [kind |-> "Some", val |-> call.line.dest]
             /\ (RLt(Dot1(call), zero) /\ RLt(Dot2(call), zero)) =>
                   ret = [kind |-> "None"]

\* A collinear segment ahead of the ray whose far end is its origin.
C13_Witness ==
    /\ Done("ray_line_intersection_point")
    /\ RPerpS(call) = zero
    /\ QmpPerpR(call) = zero
    /\ RGt(Dot2(call), zero)
    /\ RLt(Dot2(call), Dot1(call))
    /\ ret = [kind |-> "Some", val |-> call.line.dest]

(***************************************************************************)
(* intersect.rs: (Plane, Plane) and (Plane, Plane, Plane).                 *)
(***************************************************************************)
\* A plane-plane intersection that answers None instead of failing.
plane_plane_intersection_none(p1, p2) == None

\* <(Plane, Plane) as Intersect>::intersection
plane_plane_intersection(p1, p2) == Abort("Not yet implemented")

\* <(Plane, Plane, Plane) as IntersectPoint>::intersection_point
plane_plane_plane_intersection_point(p1, p2, p3) ==
    Abort("Not yet implemented")

(***************************************************************************)
(* The harness of the plane-plane intersections.                           *)
(***************************************************************************)
\* The coordinate planes x = 0, y = 0 and z = 1.
AxisPlanes ==
    {from_abcd(one, zero, zero, zero), from_abcd(zero, one, zero, zero),
     from_abcd(zero, zero, one, one)}

PlanePlaneCalls ==
    [op : {"plane_plane_intersection"}, p1 : Planes, p2 : Planes]
    \cup [op : {"plane_plane_plane_intersection_point"}, p1 : Planes,
          p2 : AxisPlanes, p3 : AxisPlanes]

InitPlanePlane == call \in PlanePlaneCalls /\ ret = NoRet /\ pc = "call"

PlanePlaneIntersectionCall ==
    /\ pc = "call" /\ call.op = "plane_plane_intersection"
    /\ ret' = plane_plane_intersection(call.p1, call.p2)
    /\ pc' = "done"
    /\ UNCHANGED call

PlanePlanePlaneIntersectionPointCall ==
    /\ pc = "call" /\ call.op = "plane_plane_plane_intersection_point"
    /\ ret' = plane_plane_plane_intersection_point(call.p1, call.p2, call.p3)
    /\ pc' = "done"
    /\ UNCHANGED call

NextPlanePlane ==
    \/ PlanePlaneIntersectionCall
    \/ PlanePlanePlaneIntersectionPointCall

SpecPlanePlane == InitPlanePlane /\ [][NextPlanePlane]_vars

(***************************************************************************)
(* Plane-plane claim.                                                      *)
(***************************************************************************)
\* C14: every plane-plane intersection() and every plane-plane-plane
\* intersection_point() ends in the failure "Not yet implemented"; none
\* returns Some or None.
C14_PlanePlaneNotImplemented ==
    (Done("plane_plane_intersection")
        \/ Done("plane_plane_plane_intersection_point")) =>
        /\ ret = [kind |-> "abort", msg |-> "Not yet implemented"]
        /\ ret.kind \notin {"Some", "None"}

\* Two planes that do meet in a line (x = 0 and y = 0), and the call fails.
C14_Witness ==
    /\ Done("plane_plane_intersection")
    /\ call.p1 = from_abcd(one, zero, zero, zero)
    /\ call.p2 = from_abcd(zero, one, zero, zero)
    /\ ret.kind = "abort"

(***************************************************************************)
(* vector.rs: inputs of the vector operations.                             *)
(***************************************************************************)
\* Vector4::new
Vector4(x, y, z, w) == [x |-> x, y |-> y, z |-> z, w |-> w]

\* Coordinates of 2D and 3D vectors range over -1 .. MaxVec, those of 4D
\* vectors over 0 .. MaxVec.
MaxVec == 1

VecCoords == {R(i) : i \in -1 .. MaxVec}

VecCoords4 == {R(i) : i \in 0 .. MaxVec}

Vector2s == {Vector2(x, y) : x \in VecCoords, y \in VecCoords}

Vector3s == {Vector3(x, y, z) : x \in VecCoords, y \in VecCoords,
                                z \in VecCoords}

Vector4s == {Vector4(x, y, z, w) : x \in VecCoords4, y \in VecCoords4,
                                   z \in VecCoords4, w \in VecCoords4}

\* Pairs of vectors of the same type.
VectorPairs ==
    (Vector2s \X Vector2s) \cup (Vector3s \X Vector3s)
        \cup (Vector4s \X Vector4s)

\* 2D vectors on the scale of epsilon, and their pairs.
TinyCoords == {zero, epsilon}

TinyPairs ==
    {<<Vector2(ax, ay), Vector2(bx, by)>> :
        ax \in TinyCoords, ay \in TinyCoords,
        bx \in TinyCoords, by \in TinyCoords}

\* Tolerances passed to the *_eps methods: 0, epsilon, 1/2 and 1.
Tolerances == {zero, epsilon, Norm(1, 2), one}

(***************************************************************************)
(* The harness of approx_eq_eps and approx_eq on vectors.                  *)
(***************************************************************************)
\* approx_eq_eps on every pair and tolerance, approx_eq on every pair and on
\* the pairs on the scale of epsilon.
InitApprox ==
    /\ ret = NoRet /\ pc = "call"
    /\ \/ \E ab \in VectorPairs, e \in Tolerances :
             call = [op |-> "approx_eq_eps", a |-> ab[1], b |-> ab[2],
                     eps |-> e]
       \/ \E ab \in VectorPairs \cup TinyPairs :
             call = [op |-> "approx_eq", a |-> ab[1], b |-> ab[2]]

ApproxEqEpsCall ==
    /\ pc = "call" /\ call.op = "approx_eq_eps"
    /\ ret' = Value(approx_eq_eps(call.a, call.b, call.eps))
    /\ pc' = "done"
    /\ UNCHANGED call

ApproxEqCall ==
    /\ pc = "call" /\ call.op = "approx_eq"
    /\ ret' = Value(approx_eq(call.a, call.b))
    /\ pc' = "done"
    /\ UNCHANGED call

NextApprox == ApproxEqEpsCall \/ ApproxEqCall

SpecApprox == InitApprox /\ [][NextApprox]_vars

(***************************************************************************)
(* Vector claims.                                                          *)
(***************************************************************************)
\* The components of a vector, in order.
Comps(v) ==
    IF "z" \notin DOMAIN v THEN <<v.x, v.y>>
    ELSE IF "w" \notin DOMAIN v THEN <<v.x, v.y, v.z>>
    ELSE <<v.x, v.y, v.z, v.w>>

\* The sum of the products of the components of two sequences.
RECURSIVE SumProd(_, _)
SumProd(u, v) ==
    IF u = <<>> THEN zero
    ELSE RAdd(RMul(Head(u), Head(v)), SumProd(Tail(u), Tail(v)))

\* a . b, |a|^2 and |a - b|^2
Inner(a, b) == SumProd(Comps(a), Comps(b))

NormSq(a) == Inner(a, a)

DistSq(a, b) ==
    LET d == [i \in 1 .. Len(Comps(a)) |-> RSub(Comps(a)[i], Comps(b)[i])]
    IN  SumProd(d, d)

\* |a - b|^2 <= eps^2 * s if s = max(|a|^2, |b|^2) > 1, else
\* |a - b|^2 <= eps^2.
WithinScaledTolerance(a, b, eps) ==
    LET s == IF RLt(NormSq(a), NormSq(b)) THEN NormSq(b) ELSE NormSq(a)
    IN  IF RGt(s, one) THEN RLe(DistSq(a, b), RMul(RMul(eps, eps), s))
        ELSE RLe(DistSq(a, b), RMul(eps, eps))

\* C15: a.approx_eq_eps(b, eps) returns a boolean, true exactly when
\* |a - b|^2 <= eps^2 * s for s = max(|a|^2, |b|^2) > 1 and
\* |a - b|^2 <= eps^2 otherwise; approx_eq(a, b) is that test with
\* eps = epsilon().
C15_VectorApproxEqScaled ==
    /\ Done("approx_eq_eps") =>
          /\ ret.kind = "value" /\ ret.val \in BOOLEAN
          /\ ret.val <=> WithinScaledTolerance(call.a, call.b, call.eps)
    /\ Done("approx_eq") =>
          /\ ret.kind = "value" /\ ret.val \in BOOLEAN
          /\ ret.val <=> WithinScaledTolerance(call.a, call.b, epsilon)

\* Distinct vectors of scale s > 1 that are equal only thanks to the scale.
C15_Witness ==
    /\ Done("approx_eq_eps")
    /\ call.a # call.b
    /\ RGt(DistSq(call.a, call.b), RMul(call.eps, call.eps))
    /\ ret = [kind |-> "value", val |-> TRUE]

\* Distinct vectors within epsilon of each other.
C15_WitnessTiny ==
    /\ Done("approx_eq")
    /\ call.a # call.b
    /\ ret = [kind |-> "value", val |-> TRUE]

(***************************************************************************)
(* The harness of the parallel tests on vectors.                           *)
(***************************************************************************)
\* Scale factors k of the pairs (a, k * a).
Scales == {R(-2), Norm(-1, 2), Norm(1, 2), R(3)}

IsZeroVector(v) == \A f \in DOMAIN v : v[f] = zero

ScaledPairs ==
    {<<a, mul_s(a, k)>> :
        a \in {v \in Vector2s \cup Vector3s \cup Vector4s : ~IsZeroVector(v)},
        k \in Scales}

\* The tolerances eps for which 1 - eps * eps is a scalar of the model
\* (1 - 1e-10 exceeds the integers of the model).
CoarseTolerances == Tolerances \ {epsilon}

\* The pairs of vectors with the given fields.
PairsOver(fields) ==
    {q \in VectorPairs \cup ScaledPairs : DOMAIN q[1] = fields}

InitParallel ==
    /\ ret = NoRet /\ pc = "call"
    /\ \/ \E ab \in VectorPairs \cup ScaledPairs, e \in CoarseTolerances :
             call = [op |-> "is_parallel_eps", a |-> ab[1], b |-> ab[2],
                     eps |-> e]
       \/ \E ab \in PairsOver({"x", "y"}), e \in Tolerances :
             call = [op |-> "Vector2_is_parallel_eps", a |-> ab[1],
                     b |-> ab[2], eps |-> e]
       \/ \E ab \in PairsOver({"x", "y", "z"}), e \in Tolerances :
             call = [op |-> "Vector3_is_parallel_eps", a |-> ab[1],
                     b |-> ab[2], eps |-> e]

IsParallelEpsCall ==
    /\ pc = "call" /\ call.op = "is_parallel_eps"
    /\ ret' = Value(is_parallel_eps(call.a, call.b, call.eps))
    /\ pc' = "done"
    /\ UNCHANGED call

Vector2IsParallelEpsCall ==
    /\ pc = "call" /\ call.op = "Vector2_is_parallel_eps"
    /\ ret' = Value(Vector2_is_parallel_eps(call.a, call.b, call.eps))
    /\ pc' = "done"
    /\ UNCHANGED call

Vector3IsParallelEpsCall ==
    /\ pc = "call" /\ call.op = "Vector3_is_parallel_eps"
    /\ ret' = Value(Vector3_is_parallel_eps(call.a, call.b, call.eps))
    /\ pc' = "done"
    /\ UNCHANGED call

NextParallel ==
    \/ IsParallelEpsCall
    \/ Vector2IsParallelEpsCall
    \/ Vector3IsParallelEpsCall

SpecParallel == InitParallel /\ [][NextParallel]_vars

(***************************************************************************)
(* Parallel claim.                                                         *)
(***************************************************************************)
\* b = k * a for a nonzero scalar k among 1, -1 and the scale factors.
IsNonzeroMultiple(a, b) ==
    \E k \in Scales \cup {one, RNeg(one)} :
        b = [f \in DOMAIN a |-> RMul(k, a[f])]

\* C16: for every nonzero a, nonzero k and tolerance 0 <= eps < 1,
\* is_parallel_eps(a, k * a, eps) is true, in the generic form and in the
\* forms of Vector2 and Vector3.
C16_ParallelToOwnMultiples ==
    (/\ Done("is_parallel_eps") \/ Done("Vector2_is_parallel_eps")
           \/ Done("Vector3_is_parallel_eps")
     /\ ~IsZeroVector(call.a)
     /\ IsNonzeroMultiple(call.a, call.b)
     /\ RLe(zero, call.eps) /\ RLt(call.eps, one)) =>
        ret = [kind |-> "value", val |-> TRUE]

\* The generic form on a and a negative multiple of a that is not -a.
C16_Witness ==
    /\ Done("is_parallel_eps")
    /\ ~IsZeroVector(call.a)
    /\ \E k \in Scales : RLt(k, zero) /\ call.b = mul_s(call.a, k)
    /\ call.eps = Norm(1, 2)
    /\ ret = [kind |-> "value", val |-> TRUE]

\* Vectors that are not parallel, told apart by the form of Vector3.
C16_WitnessNotParallel ==
    /\ Done("Vector3_is_parallel_eps")
    /\ call.eps = epsilon
    /\ ret = [kind |-> "value", val |-> FALSE]

(***************************************************************************)
(* The harness of the perpendicular tests: a call on (a, b), then the same *)
(* call on the rescaled vectors (k1 * a, k2 * b).                          *)
(***************************************************************************)
\* The pairs of scale factors (k1, k2).
ScalePairs == {<<R(-2), R(3)>>, <<Norm(1, 2), R(-2)>>}

InitPerpendicular ==
    /\ ret = NoRet /\ pc = "call"
    /\ \/ \E ab \in VectorPairs, e \in Tolerances, k \in ScalePairs :
             call = [op |-> "is_perpendicular_eps", a |-> ab[1], b |-> ab[2],
                     eps |-> e, k1 |-> k[1], k2 |-> k[2]]
       \/ \E ab \in VectorPairs, k \in ScalePairs :
             call = [op |-> "is_perpendicular", a |-> ab[1], b |-> ab[2],
                     k1 |-> k[1], k2 |-> k[2]]

IsPerpendicularEpsCall ==
    /\ pc = "call" /\ call.op = "is_perpendicular_eps"
    /\ ret' = Value(is_perpendicular_eps(call.a, call.b, call.eps))
    /\ pc' = "done"
    /\ UNCHANGED call

IsPerpendicularCall ==
    /\ pc = "call" /\ call.op = "is_perpendicular"
    /\ ret' = Value(is_perpendicular(call.a, call.b))
    /\ pc' = "done"
    /\ UNCHANGED call

\* The second call, on k1 * a and k2 * b; ret keeps both results.
IsPerpendicularEpsRescaledCall ==
    /\ pc = "done" /\ call.op = "is_perpendicular_eps"
    /\ ret' = [kind |-> "values", first |-> ret.val,
               second |-> is_perpendicular_eps(mul_s(call.a, call.k1),
                                               mul_s(call.b, call.k2),
                                               call.eps)]
    /\ pc' = "rescaled"
    /\ UNCHANGED call

IsPerpendicularRescaledCall ==
    /\ pc = "done" /\ call.op = "is_perpendicular"
    /\ ret' = [kind |-> "values", first |-> ret.val,
               second |-> is_perpendicular(mul_s(call.a, call.k1),
                                           mul_s(call.b, call.k2))]
    /\ pc' = "rescaled"
    /\ UNCHANGED call

NextPerpendicular ==
    \/ IsPerpendicularEpsCall
    \/ IsPerpendicularCall
    \/ IsPerpendicularEpsRescaledCall
    \/ IsPerpendicularRescaledCall

SpecPerpendicular == InitPerpendicular /\ [][NextPerpendicular]_vars

(***************************************************************************)
(* Perpendicular claim.                                                    *)
(***************************************************************************)
\* C17: is_perpendicular_eps(a, b, eps) is true whenever a . b = 0, for
\* every eps >= 0, and its result does not change when a and b are replaced
\* by k1 * a and k2 * b for nonzero k1, k2.
C17_PerpendicularExactAndScaleInvariant ==
    /\ (Done("is_perpendicular_eps") /\ Inner(call.a, call.b) = zero
          /\ RGe(call.eps, zero)) =>
          ret = [kind |-> "value", val |-> TRUE]
    /\ (pc = "rescaled" /\ call.k1 # zero /\ call.k2 # zero) =>
          ret.first = ret.second

\* Nonzero perpendicular vectors tested with the tolerance 0.
C17_Witness ==
    /\ Done("is_perpendicular_eps")
    /\ ~IsZeroVector(call.a) /\ ~IsZeroVector(call.b)
    /\ Inner(call.a, call.b) = zero
    /\ call.eps = zero
    /\ ret = [kind |-> "value", val |-> TRUE]

\* Vectors that are not perpendicular, before and after rescaling.
C17_WitnessRescaled ==
    /\ pc = "rescaled"
    /\ call.op = "is_perpendicular_eps"
    /\ Inner(call.a, call.b) # zero
    /\ ret.first = FALSE /\ ret.second = FALSE

\* Vectors within the tolerance 1/2 of perpendicular, after rescaling.
C17_WitnessNearly ==
    /\ pc = "rescaled"
    /\ Inner(call.a, call.b) # zero
    /\ ret.first = TRUE /\ ret.second = TRUE

(***************************************************************************)
(* vector.rs: EuclideanVector::normalize_to, lerp and their in-place forms.*)
(***************************************************************************)
\* Float::rsqrt
rsqrt(x) == RDiv(one, sqrt(x))

\* EuclideanVector::normalize_to
normalize_to(self, length) == mul_s(self, RMul(length, rsqrt(length2(self))))

\* EuclideanVector::lerp
lerp(self, other, amount) ==
    add_v(self, mul_s(sub_v(other, self), amount))

\* EuclideanVector::normalize_self_to
normalize_self_to(self, length) ==
    LET scale == RMul(length, rsqrt(length2(self)))
    IN  mul_self_s(self, scale)

\* EuclideanVector::lerp_self
lerp_self(self, other, amount) ==
    LET v == mul_s(sub_v(other, self), amount)
    IN  add_self_v(self, v)

(***************************************************************************)
(* The harness of the pure and in-place operations: x.op(args), then       *)
(* x.op_self(args) on the same x and args.                                 *)
(***************************************************************************)
\* Scalar arguments.
ScalarArgs == {R(-2), Norm(1, 2), R(3)}

Vectors == Vector2s \cup Vector3s \cup Vector4s

\* The vectors whose length is a scalar of the model.
Normalizable == {v \in Vectors : HasExactSqrt(length2(v))}

InitInPlace ==
    /\ ret = NoRet /\ pc = "call"
    /\ \/ \E o \in {"add_s", "sub_s", "mul_s", "div_s", "rem_s"},
             x \in Vectors, k \in ScalarArgs :
             call = [op |-> o, x |-> x, s |-> k]
       \/ \E o \in {"add_v", "sub_v", "mul_v", "div_v", "rem_v"},
             ab \in VectorPairs :
             call = [op |-> o, x |-> ab[1], v |-> ab[2]]
       \/ \E x \in Vectors : call = [op |-> "neg", x |-> x]
       \/ \E a \in Vector3s, b \in Vector3s :
             call = [op |-> "cross", x |-> a, v |-> b]
       \/ \E ab \in VectorPairs, k \in ScalarArgs :
             call = [op |-> "lerp", x |-> ab[1], v |-> ab[2], s |-> k]
       \/ \E x \in Normalizable, k \in ScalarArgs :
             call = [op |-> "normalize_to", x |-> x, s |-> k]

\* The vector argument of a call, if it has one.
ArgOf(c) == IF "v" \in DOMAIN c THEN c.v ELSE NoRet

\* x.op(args) returns result.
OpCall(op, result) ==
    /\ pc = "call" /\ call.op = op
    /\ ret' = Value(result)
    /\ pc' = "done"
    /\ UNCHANGED call

\* x.op_self(args) leaves after in x; the argument is borrowed immutably.
SelfOpCall(op, after) ==
    /\ pc = "done" /\ call.op = op
    /\ ret' = [kind |-> "values", first |-> ret.val, second |-> after,
               arg |-> ArgOf(call)]
    /\ pc' = "self_done"
    /\ UNCHANGED call

NextInPlace ==
    \/ OpCall("add_s", add_s(call.x, call.s))
    \/ SelfOpCall("add_s", add_self_s(call.x, call.s))
    \/ OpCall("sub_s", sub_s(call.x, call.s))
    \/ SelfOpCall("sub_s", sub_self_s(call.x, call.s))
    \/ OpCall("mul_s", mul_s(call.x, call.s))
    \/ SelfOpCall("mul_s", mul_self_s(call.x, call.s))
    \/ OpCall("div_s", div_s(call.x, call.s))
    \/ SelfOpCall("div_s", div_self_s(call.x, call.s))
    \/ OpCall("rem_s", rem_s(call.x, call.s))
    \/ SelfOpCall("rem_s", rem_self_s(call.x, call.s))
    \/ OpCall("add_v", add_v(call.x, call.v))
    \/ SelfOpCall("add_v", add_self_v(call.x, call.v))
    \/ OpCall("sub_v", sub_v(call.x, call.v))
    \/ SelfOpCall("sub_v", sub_self_v(call.x, call.v))
    \/ OpCall("mul_v", mul_v(call.x, call.v))
    \/ SelfOpCall("mul_v", mul_self_v(call.x, call.v))
    \/ OpCall("div_v", div_v(call.x, call.v))
    \/ SelfOpCall("div_v", div_self_v(call.x, call.v))
    \/ OpCall("rem_v", rem_v(call.x, call.v))
    \/ SelfOpCall("rem_v", rem_self_v(call.x, call.v))
    \/ OpCall("neg", neg(call.x))
    \/ SelfOpCall("neg", neg_self(call.x))
    \/ OpCall("cross", cross(call.x, call.v))
    \/ SelfOpCall("cross", cross_self(call.x, call.v))
    \/ OpCall("lerp", lerp(call.x, call.v, call.s))
    \/ SelfOpCall("lerp", lerp_self(call.x, call.v, call.s))
    \/ OpCall("normalize_to", normalize_to(call.x, call.s))
    \/ SelfOpCall("normalize_to", normalize_self_to(call.x, call.s))

SpecInPlace == InitInPlace /\ [][NextInPlace]_vars

(***************************************************************************)
(* Pure and in-place claim.                                                *)
(***************************************************************************)
\* C18: after x.op_self(args), x holds what x.op(args) returned for the
\* same x and args, and the argument vector is unchanged, for add, sub, mul,
\* div, rem with a scalar or a vector, neg, cross, lerp and normalize_to.
C18_PureAndInPlaceAgree ==
    pc = "self_done" =>
        /\ ret.second = ret.first
        /\ ret.arg = ArgOf(call)

\* A cross product in place whose result differs from both operands.
C18_Witness ==
    /\ pc = "self_done"
    /\ call.op = "cross"
    /\ ret.second # call.x /\ ret.second # call.v
    /\ ~IsZeroVector(ret.second)
    /\ ret.second = ret.first

(***************************************************************************)
(* The harness of Vector3::cross: a.cross(b), then b.cross(a).             *)
(***************************************************************************)
\* The vectors of tests/vector.rs (test_cross).
TestCrossPair == <<V3(1, 2, 3), V3(4, 5, 6)>>

CrossCalls ==
    {[op |-> "cross", a |-> ab[1], b |-> ab[2]] :
        ab \in (Vector3s \X Vector3s) \cup {TestCrossPair}}

InitCross == call \in CrossCalls /\ ret = NoRet /\ pc = "call"

CrossCall ==
    /\ pc = "call" /\ call.op = "cross"
    /\ ret' = Value(cross(call.a, call.b))
    /\ pc' = "done"
    /\ UNCHANGED call

CrossSwappedCall ==
    /\ pc = "done" /\ call.op = "cross"
    /\ ret' = [kind |-> "values", first |-> ret.val,
               second |-> cross(call.b, call.a)]
    /\ pc' = "swapped"
    /\ UNCHANGED call

NextCross == CrossCall \/ CrossSwappedCall

SpecCross == InitCross /\ [][NextCross]_vars

(***************************************************************************)
(* Cross product claim.                                                    *)
(***************************************************************************)
\* C19: a.cross(b) is (a_y b_z - a_z b_y, a_z b_x - a_x b_z,
\* a_x b_y - a_y b_x); (1,2,3) x (4,5,6) = (-3,6,-3); a.cross(b) equals
\* -(b.cross(a)), and a.cross(a) is the zero vector.
C19_CrossRightHanded ==
    /\ Done("cross") =>
          /\ ret.val.x = Wedge(call.a.y, call.a.z, call.b.y, call.b.z)
          /\ ret.val.y = Wedge(call.a.z, call.a.x, call.b.z, call.b.x)
          /\ ret.val.z = Wedge(call.a.x, call.a.y, call.b.x, call.b.y)
          /\ DOMAIN ret.val = {"x", "y", "z"}
          /\ <<call.a, call.b>> = TestCrossPair =>
                ret.val = [x |-> R(-3), y |-> R(6), z |-> R(-3)]
          /\ call.a = call.b =>
                ret.val = [x |-> zero, y |-> zero, z |-> zero]
    /\ pc = "swapped" =>
          ret.first = [x |-> RSub(zero, ret.second.x),
                       y |-> RSub(zero, ret.second.y),
                       z |-> RSub(zero, ret.second.z)]

\* The product of test_cross.
C19_Witness ==
    /\ Done("cross")
    /\ <<call.a, call.b>> = TestCrossPair
    /\ ret.val = [x |-> R(-3), y |-> R(6), z |-> R(-3)]

\* A nonzero product and its nonzero opposite.
C19_WitnessSwapped ==
    /\ pc = "swapped"
    /\ ~IsZeroVector(ret.first)
    /\ ret.first # ret.second

\* ---------------------------------------------------------------------
\* plane.rs: approximate equality of planes
\* ---------------------------------------------------------------------

Plane_approx_eq_eps_normal_only(self, other, eps) ==
    approx_eq_eps(self.n, other.n, eps)

\* <Plane as ApproxEq>::approx_eq_eps
Plane_approx_eq_eps(self, other, eps) ==
    approx_eq_eps(mul_s(self.n, self.d), mul_s(other.n, other.d), eps)

\* ApproxEq::approx_eq for planes
Plane_approx_eq(self, other) == Plane_approx_eq_eps(self, other, epsilon)

\* Planes compared: every normal and offset of the vector bounds.
ApproxPlanes == {Plane_new(n, d) : n \in Vector3s, d \in VecCoords}

\* The other representation of the same surface equation, (-n, -d).
SignFlipped(p) == Plane_new(neg(p.n), RNeg(p.d))

\* Each plane against its sign-flipped form and against the planes whose
\* normal lies in the xy plane.
ApproxPlanePairs ==
    {<<p, SignFlipped(p)>> : p \in ApproxPlanes}
    \cup {<<p, q>> : p \in ApproxPlanes,
                     q \in {r \in ApproxPlanes : r.n.z = zero}}

InitPlaneApprox ==
    /\ ret = NoRet /\ pc = "call"
    /\ \/ \E pq \in ApproxPlanePairs, e \in Tolerances :
             call = [op |-> "plane_approx_eq_eps", a |-> pq[1], b |-> pq[2],
                     eps |-> e]
       \/ \E pq \in ApproxPlanePairs :
             call = [op |-> "plane_approx_eq", a |-> pq[1], b |-> pq[2]]

PlaneApproxEqEpsCall ==
    /\ pc = "call" /\ call.op = "plane_approx_eq_eps"
    /\ ret' = Value(Plane_approx_eq_eps(call.a, call.b, call.eps))
    /\ pc' = "done"
    /\ UNCHANGED call

PlaneApproxEqCall ==
    /\ pc = "call" /\ call.op = "plane_approx_eq"
    /\ ret' = Value(Plane_approx_eq(call.a, call.b))
    /\ pc' = "done"
    /\ UNCHANGED call

NextPlaneApprox == PlaneApproxEqEpsCall \/ PlaneApproxEqCall

SpecPlaneApprox == InitPlaneApprox /\ [][NextPlaneApprox]_vars

\* The normal of p with every component multiplied by the offset.
ScaledNormal(p) ==
    Vector3(RMul(p.n.x, p.d), RMul(p.n.y, p.d), RMul(p.n.z, p.d))

C20_WitnessDifferent ==
    /\ Done("plane_approx_eq_eps")
    /\ call.a.n = call.b.n /\ call.a.d # call.b.d
    /\ ret = Value(FALSE)

\* Two different surfaces found equal because both offsets are zero.
C20_WitnessZeroOffset ==
    /\ Done("plane_approx_eq_eps")
    /\ call.a.d = zero /\ call.b.d = zero
    /\ ~IsZeroVector(call.a.n) /\ ~IsZeroVector(call.b.n)
    /\ call.a.n # call.b.n /\ call.a.n # neg(call.b.n)
    /\ call.eps = zero
    /\ ret = Value(TRUE)

\* ---------------------------------------------------------------------
\* plane.rs: normalisation of the normal and of the distance
\* ---------------------------------------------------------------------

\* EuclideanVector::length
length(v) == sqrt(length2(v))

\* Plane::normalize_normal_to
normalize_normal_to(self, len) ==
    LET scale == RDiv(len, length(self.n))
    IN  Plane_new(mul_s(self.n, scale), RMul(self.d, scale))

\* Plane::normalize_normal
normalize_normal(self) == normalize_normal_to(self, one)

\* Plane::normalize_normal_self_to: the value of self after the call.
normalize_normal_self_to(self, len) ==
    LET scale == RDiv(len, length(self.n))
        n1 == mul_self_s(self.n, scale)
    IN  [n |-> n1, d |-> RMul(self.d, scale)]

\* Plane::normalize_normal_self
normalize_normal_self(self) == normalize_normal_self_to(self, one)

\* Plane::normalize_distance_to
normalize_distance_to(self, len) ==
    LET scale == RDiv(self.d, len)
    IN  Plane_new(mul_s(self.n, scale), len)

\* Plane::normalize_distance
normalize_distance(self) == normalize_distance_to(self, one)

\* Plane::normalize_distance_self_to: the value of self after the call.
normalize_distance_self_to(self, len) ==
    LET scale == RDiv(self.d, len)
        n1 == mul_self_s(self.n, scale)
    IN  [n |-> n1, d |-> len]

\* Plane::normalize_distance_self
normalize_distance_self(self) == normalize_distance_self_to(self, one)

\* Normals whose length is a scalar of the model: those of the vector
\* bounds, and three that are not of unit length whatever the bounds.
NormalizeNormals ==
    {n \in Vector3s \cup {V3(2, 0, 0), V3(0, 3, 4), V3(1, 2, 2)} :
        HasExactSqrt(length2(n))}

NormalizePlanes ==
    {Plane_new(n, d) : n \in NormalizeNormals,
                       d \in VecCoords \cup {Norm(1, 2)}}

\* Lengths passed to the normalize_*_to methods.
NormalizeLengths == {R(-2), zero, Norm(1, 2), one, R(2)}

InitPlaneNormalize ==
    /\ ret = NoRet /\ pc = "call"
    /\ \/ \E o \in {"normalize_normal_to", "normalize_distance_to"},
             q \in NormalizePlanes, l \in NormalizeLengths :
             call = [op |-> o, p |-> q, length |-> l]
       \/ \E o \in {"normalize_normal", "normalize_distance"},
             q \in NormalizePlanes :
             call = [op |-> o, p |-> q]

\* A method returning a plane is called.
PlaneOpCall(op, result) ==
    /\ pc = "call" /\ call.op = op
    /\ ret' = Value(result)
    /\ pc' = "done"
    /\ UNCHANGED call

\* The in-place method is called on a copy of the same plane.
PlaneSelfOpCall(op, after) ==
    /\ pc = "done" /\ call.op = op
    /\ ret' = [kind |-> "values", first |-> ret.val, second |-> after]
    /\ pc' = "self_done"
    /\ UNCHANGED call

NextPlaneNormalize ==
    \/ PlaneOpCall("normalize_normal_to",
                   normalize_normal_to(call.p, call.length))
    \/ PlaneOpCall("normalize_normal", normalize_normal(call.p))
    \/ PlaneOpCall("normalize_distance_to",
                   normalize_distance_to(call.p, call.length))
    \/ PlaneOpCall("normalize_distance", normalize_distance(call.p))
    \/ PlaneSelfOpCall("normalize_normal_to",
                       normalize_normal_self_to(call.p, call.length))
    \/ PlaneSelfOpCall("normalize_normal", normalize_normal_self(call.p))
    \/ PlaneSelfOpCall("normalize_distance_to",
                       normalize_distance_self_to(call.p, call.length))
    \/ PlaneSelfOpCall("normalize_distance", normalize_distance_self(call.p))

SpecPlaneNormalize == InitPlaneNormalize /\ [][NextPlaneNormalize]_vars

\* The length asked for: the argument, or 1 for the methods without one.
AskedLength(c) == IF "length" \in DOMAIN c THEN c.length ELSE one

\* q = (k * p.n, k * p.d) for a nonzero k; for p.d # 0, k can only be
\* q.d / p.d.
SameSurface(p, q) ==
    LET k == RDiv(q.d, p.d)
    IN  /\ k # zero
        /\ q.n.x = RMul(p.n.x, k) /\ q.n.y = RMul(p.n.y, k)
        /\ q.n.z = RMul(p.n.z, k)

\* The result of a call made, whichever of the two forms was last.
FirstResult == IF pc = "self_done" THEN ret.first ELSE ret.val

\* C21: for d # 0 and length # 0, normalize_distance_to(length) returns a
\* plane with d' = length that is a nonzero multiple of (n, d), and
\* normalize_distance_self_to leaves self equal to that plane.
C21_NormalizeDistanceSameSurface ==
    (/\ pc \in {"done", "self_done"}
     /\ call.op \in {"normalize_distance_to", "normalize_distance"}
     /\ call.p.d # zero /\ AskedLength(call) # zero)
    => /\ FirstResult.d = AskedLength(call)
       /\ SameSurface(call.p, FirstResult)
       /\ pc = "self_done" => ret.second = ret.first

\* The parts of C21 the code does satisfy: d' = length, and the in-place
\* form agrees with the pure one.
C21_OffsetAndInPlaceForm ==
    (/\ pc \in {"done", "self_done"}
     /\ call.op \in {"normalize_distance_to", "normalize_distance"}
     /\ call.p.d # zero /\ AskedLength(call) # zero)
    => /\ FirstResult.d = AskedLength(call)
       /\ pc = "self_done" => ret.second = ret.first

\* C22: for a plane p with nonzero normal, normalize_normal_to(L) (L = 1
\* for normalize_normal) returns a plane whose normal has length L and
\* which p.approx_eq reports equal to p.
C22_NormalizeNormalApproxEq ==
    (/\ pc = "done"
     /\ call.op \in {"normalize_normal_to", "normalize_normal"}
     /\ ~IsZeroVector(call.p.n) /\ RGt(AskedLength(call), zero))
    => /\ length(ret.val.n) = AskedLength(call)
       /\ Plane_approx_eq(call.p, ret.val)

\* The part of C22 the code does satisfy: the normal has the length asked
\* for, and the result is a positive multiple of (n, d).
C22_NormalLengthAndSameSurface ==
    (/\ pc = "done"
     /\ call.op \in {"normalize_normal_to", "normalize_normal"}
     /\ ~IsZeroVector(call.p.n) /\ RGt(AskedLength(call), zero))
    => /\ length(ret.val.n) = AskedLength(call)
       /\ ret.val.n = mul_s(call.p.n, RDiv(AskedLength(call), length(call.p.n)))
       /\ ret.val.d = RMul(call.p.d, RDiv(AskedLength(call), length(call.p.n)))

\* ---------------------------------------------------------------------
\* parallel.rs: the Parallel trait on pairs of vectors, lines, rays, planes
\* ---------------------------------------------------------------------

\* Line3::new
Line3(origin, dest) == [origin |-> origin, dest |-> dest]

\* Point2::sub_p: Point - Point = Vector
Point2_sub_p(p, q) == Vector2(RSub(p.x, q.x), RSub(p.y, q.y))

\* The type of a value, read off its fields.
TypeOf(v) ==
    LET dim(w) == IF "w" \in DOMAIN w THEN "4"
                  ELSE IF "z" \in DOMAIN w THEN "3" ELSE "2"
    IN  IF "dest" \in DOMAIN v THEN "Line" \o dim(v.origin)
        ELSE IF "direction" \in DOMAIN v THEN "Ray" \o dim(v.origin)
        ELSE IF "n" \in DOMAIN v THEN "Plane"
        ELSE "Vector" \o dim(v)

\* The overloads with every plane reduced like a direction and tested for
\* parallelism.
Parallel_is_parallel_eps_never_perpendicular(self, eps) ==
    LET dir(v) ==
            IF "dest" \in DOMAIN v
            THEN IF "z" \in DOMAIN v.origin THEN sub_p(v.dest, v.origin)
                 ELSE Point2_sub_p(v.dest, v.origin)
            ELSE IF "direction" \in DOMAIN v THEN v.direction
            ELSE IF "n" \in DOMAIN v THEN v.n
            ELSE v
        a == dir(self[1])
        b == dir(self[2])
    IN  IF "w" \in DOMAIN a THEN is_parallel_eps(a, b, eps)
        ELSE IF "z" \in DOMAIN a THEN Vector3_is_parallel_eps(a, b, eps)
        ELSE Vector2_is_parallel_eps(a, b, eps)

\* Parallel::is_parallel_eps, one arm for each impl of parallel.rs. The
\* method called on a Vector2 or Vector3 is the type's own is_parallel_eps,
\* which takes precedence over the one of the Vector trait.
Parallel_is_parallel_eps(self, eps) ==
    LET t  == <<TypeOf(self[1]), TypeOf(self[2])>>
        x0 == self[1]
        x1 == self[2]
    IN  CASE t = <<"Vector2", "Vector2">> ->
                 Vector2_is_parallel_eps(x0, x1, eps)
          [] t = <<"Vector2", "Line2">> ->
                 Vector2_is_parallel_eps(
                     x0, Point2_sub_p(x1.dest, x1.origin), eps)
          [] t = <<"Vector2", "Ray2">> ->
                 Vector2_is_parallel_eps(x0, x1.direction, eps)
          [] t = <<"Line2", "Vector2">> ->
                 Vector2_is_parallel_eps(
                     Point2_sub_p(x0.dest, x0.origin), x1, eps)
          [] t = <<"Line2", "Line2">> ->
                 Vector2_is_parallel_eps(
                     Point2_sub_p(x0.dest, x0.origin),
                     Point2_sub_p(x1.dest, x1.origin), eps)
          [] t = <<"Line2", "Ray2">> ->
                 Vector2_is_parallel_eps(
                     Point2_sub_p(x0.dest, x0.origin), x1.direction, eps)
          [] t = <<"Ray2", "Vector2">> ->
                 Vector2_is_parallel_eps(x0.direction, x1, eps)
          [] t = <<"Ray2", "Line2">> ->
                 Vector2_is_parallel_eps(
                     x0.direction, Point2_sub_p(x1.dest, x1.origin), eps)
          [] t = <<"Ray2", "Ray2">> ->
                 Vector2_is_parallel_eps(x0.direction, x1.direction, eps)
          [] t = <<"Vector3", "Vector3">> ->
                 Vector3_is_parallel_eps(x0, x1, eps)
          [] t = <<"Vector3", "Line3">> ->
                 Vector3_is_parallel_eps(x0, sub_p(x1.dest, x1.origin), eps)
          [] t = <<"Vector3", "Ray3">> ->
                 Vector3_is_parallel_eps(x0, x1.direction, eps)
          [] t = <<"Vector3", "Plane">> ->
                 is_perpendicular_eps(x0, x1.n, eps)
          [] t = <<"Line3", "Vector3">> ->
                 Vector3_is_parallel_eps(sub_p(x0.dest, x0.origin), x1, eps)
          [] t = <<"Line3", "Line3">> ->
                 Vector3_is_parallel_eps(sub_p(x0.dest, x0.origin),
                                         sub_p(x1.dest, x1.origin), eps)
          [] t = <<"Line3", "Ray3">> ->
                 Vector3_is_parallel_eps(sub_p(x0.dest, x0.origin),
                                         x1.direction, eps)
          [] t = <<"Line3", "Plane">> ->
                 is_perpendicular_eps(sub_p(x0.dest, x0.origin), x1.n, eps)
          [] t = <<"Ray3", "Vector3">> ->
                 Vector3_is_parallel_eps(x0.direction, x1, eps)
          [] t = <<"Ray3", "Line3">> ->
                 Vector3_is_parallel_eps(x0.direction,
                                         sub_p(x1.dest, x1.origin), eps)
          [] t = <<"Ray3", "Ray3">> ->
                 Vector3_is_parallel_eps(x0.direction, x1.direction, eps)
          [] t = <<"Ray3", "Plane">> ->
                 is_perpendicular_eps(x0.direction, x1.n, eps)
          [] t = <<"Plane", "Vector3">> ->
                 is_perpendicular_eps(x0.n, x1, eps)
          [] t = <<"Plane", "Line3">> ->
                 is_perpendicular_eps(x0.n, sub_p(x1.dest, x1.origin), eps)
          [] t = <<"Plane", "Ray3">> ->
                 is_perpendicular_eps(x0.n, x1.direction, eps)
          [] t = <<"Plane", "Plane">> ->
                 Vector3_is_parallel_eps(x0.n, x1.n, eps)
          [] t = <<"Vector4", "Vector4">> ->
                 is_parallel_eps(x0, x1, eps)

\* Parallel::is_parallel
Parallel_is_parallel(self) == Parallel_is_parallel_eps(self, epsilon)

\* Directions of the values paired: 2D ones over the vector bounds, 3D
\* ones with z either 0 or the largest coordinate.
PairDirections2 == Vector2s

PairDirections3 == {v \in Vector3s : v.z \in {zero, R(MaxVec)}}

\* The values of each dimension: vectors, lines and rays from a fixed
\* origin (the zero direction gives the degenerate line), and planes.
PairValues2 ==
    PairDirections2
    \cup {Line2(Point2(one, zero), Point2(RAdd(one, v.x), v.y)) :
             v \in PairDirections2}
    \cup {Ray2(Point2(zero, one), v) : v \in PairDirections2}

PairValues3 ==
    PairDirections3
    \cup {Line3(Point3(one, zero, one),
                Point3(RAdd(one, v.x), v.y, RAdd(one, v.z))) :
             v \in PairDirections3}
    \cup {Ray3(Point3(zero, one, zero), v) : v \in PairDirections3}
    \cup {Plane_new(v, one) : v \in PairDirections3}

\* 4D vectors with every coordinate 0 or the largest one.
PairValues4 == {v \in Vector4s : \A f \in DOMAIN v : v[f] \in {zero, R(MaxVec)}}

InitParallelPairs ==
    /\ ret = NoRet /\ pc = "call"
    /\ \/ \E x \in PairValues2, y \in PairValues2, e \in Tolerances :
             call = [op |-> "is_parallel_eps", self |-> <<x, y>>, eps |-> e]
       \/ \E x \in PairValues3, y \in PairValues3, e \in Tolerances :
             call = [op |-> "is_parallel_eps", self |-> <<x, y>>, eps |-> e]
       \/ \E x \in PairValues4, y \in PairValues4, e \in CoarseTolerances :
             call = [op |-> "is_parallel_eps", self |-> <<x, y>>, eps |-> e]
       \/ \E x \in PairValues2, y \in PairValues2 :
             call = [op |-> "is_parallel", self |-> <<x, y>>]

ParallelIsParallelEpsCall ==
    /\ pc = "call" /\ call.op = "is_parallel_eps"
    /\ ret' = Value(Parallel_is_parallel_eps(call.self, call.eps))
    /\ pc' = "done"
    /\ UNCHANGED call

ParallelIsParallelCall ==
    /\ pc = "call" /\ call.op = "is_parallel"
    /\ ret' = Value(Parallel_is_parallel(call.self))
    /\ pc' = "done"
    /\ UNCHANGED call

NextParallelPairs == ParallelIsParallelEpsCall \/ ParallelIsParallelCall

SpecParallelPairs == InitParallelPairs /\ [][NextParallelPairs]_vars

IsLine(v) == "dest" \in DOMAIN v

IsRay(v) == "direction" \in DOMAIN v

IsPlane(v) == "n" \in DOMAIN v

\* What a value contributes to the vector test: dest - origin for a line,
\* the direction of a ray, the normal of a plane, a vector itself.
Contribution(v) ==
    IF IsLine(v)
    THEN [f \in DOMAIN v.origin |-> RSub(v.dest[f], v.origin[f])]
    ELSE IF IsRay(v) THEN v.direction
    ELSE IF IsPlane(v) THEN v.n
    ELSE v

\* The is_parallel_eps that a vector of the dimension of a offers.
VectorIsParallelEps(a, b, eps) ==
    IF DOMAIN a = {"x", "y"} THEN Vector2_is_parallel_eps(a, b, eps)
    ELSE IF DOMAIN a = {"x", "y", "z"} THEN Vector3_is_parallel_eps(a, b, eps)
    ELSE is_parallel_eps(a, b, eps)

\* The tolerance of a call: its argument, or epsilon() for is_parallel.
ToleranceOf(c) == IF "eps" \in DOMAIN c THEN c.eps ELSE epsilon

\* C23: each pair overload of is_parallel_eps is a vector test on what the
\* two values contribute: is_perpendicular_eps when exactly one of them is
\* a plane, is_parallel_eps otherwise (two planes included).
C23_PairOverloadsReduceToVectorTests ==
    (pc = "done" /\ call.op \in {"is_parallel_eps", "is_parallel"}) =>
        LET a == Contribution(call.self[1])
            b == Contribution(call.self[2])
        IN  /\ ret.kind = "value"
            /\ ret.val =
                 IF IsPlane(call.self[1]) # IsPlane(call.self[2])
                 THEN is_perpendicular_eps(a, b, ToleranceOf(call))
                 ELSE VectorIsParallelEps(a, b, ToleranceOf(call))

\* A line in a plane: parallel to it, its direction perpendicular to the
\* normal and not parallel to it.
C23_Witness ==
    /\ Done("is_parallel_eps")
    /\ IsLine(call.self[1]) /\ IsPlane(call.self[2])
    /\ ~IsZeroVector(Contribution(call.self[1]))
    /\ ~IsZeroVector(call.self[2].n)
    /\ ~Vector3_is_parallel_eps(Contribution(call.self[1]), call.self[2].n,
                                call.eps)
    /\ ret = Value(TRUE)

\* Two planes with parallel, non-perpendicular normals.
C23_WitnessPlanes ==
    /\ Done("is_parallel_eps")
    /\ IsPlane(call.self[1]) /\ IsPlane(call.self[2])
    /\ ~IsZeroVector(call.self[1].n)
    /\ ~is_perpendicular_eps(call.self[1].n, call.self[2].n, call.eps)
    /\ ret = Value(TRUE)

\* A line whose two ends coincide.
IsDegenerateLine(v) == IsLine(v) /\ v.origin = v.dest

\* C30: a pair holding a degenerate line (origin = dest) gets an answer
\* from is_parallel_eps and is_parallel, and the answer is true, for every
\* tolerance >= 0 and whatever the other value (vector, line, ray, plane).
C30_DegenerateLineParallelToAll ==
    (/\ pc = "done" /\ call.op \in {"is_parallel_eps", "is_parallel"}
     /\ IsDegenerateLine(call.self[1]) \/ IsDegenerateLine(call.self[2])
     /\ RGe(ToleranceOf(call), zero))
    => ret = Value(TRUE)

\* A degenerate line paired with a plane of nonzero normal.
C30_Witness ==
    /\ Done("is_parallel_eps")
    /\ IsDegenerateLine(call.self[1]) /\ IsPlane(call.self[2])
    /\ ~IsZeroVector(call.self[2].n)
    /\ call.eps = zero
    /\ ret = Value(TRUE)

\* A ray of nonzero direction paired with a degenerate line, under the
\* default tolerance.
C30_WitnessRay ==
    /\ Done("is_parallel")
    /\ IsRay(call.self[1]) /\ IsDegenerateLine(call.self[2])
    /\ ~IsZeroVector(call.self[1].direction)
    /\ ret = Value(TRUE)

\* ---------------------------------------------------------------------
\* vector.rs: the generic parallel test against the 2D and 3D overrides
\* ---------------------------------------------------------------------

\* Tolerances for which 1 - eps * eps is a scalar of the model.
FormTolerances == {zero, Norm(1, 3), Norm(1, 2), one, R(2)}

\* Vectors at an angle whose sine, 7/25, lies between two tolerances.
NearParallel2 == <<Vector2(R(3), R(4)), Vector2(R(4), R(3))>>

NearParallel3 == <<V3(3, 4, 0), V3(4, 3, 0)>>

InitParallelForms ==
    /\ ret = NoRet /\ pc = "call"
    /\ \/ \E ab \in PairsOver({"x", "y"}) \cup {NearParallel2},
             e \in FormTolerances :
             call = [op |-> "Vector2_is_parallel_eps", a |-> ab[1],
                     b |-> ab[2], eps |-> e]
       \/ \E ab \in PairsOver({"x", "y", "z"}) \cup {NearParallel3},
             e \in FormTolerances :
             call = [op |-> "Vector3_is_parallel_eps", a |-> ab[1],
                     b |-> ab[2], eps |-> e]

Vector2OverrideCall ==
    /\ pc = "call" /\ call.op = "Vector2_is_parallel_eps"
    /\ ret' = Value(Vector2_is_parallel_eps(call.a, call.b, call.eps))
    /\ pc' = "done"
    /\ UNCHANGED call

Vector3OverrideCall ==
    /\ pc = "call" /\ call.op = "Vector3_is_parallel_eps"
    /\ ret' = Value(Vector3_is_parallel_eps(call.a, call.b, call.eps))
    /\ pc' = "done"
    /\ UNCHANGED call

\* The test of the Vector trait is made on the same vectors and tolerance.
GenericAfterOverrideCall ==
    /\ pc = "done"
    /\ ret' = [kind |-> "values", first |-> ret.val,
               second |-> is_parallel_eps(call.a, call.b, call.eps)]
    /\ pc' = "generic_done"
    /\ UNCHANGED call

NextParallelForms ==
    Vector2OverrideCall \/ Vector3OverrideCall \/ GenericAfterOverrideCall

SpecParallelForms == InitParallelForms /\ [][NextParallelForms]_vars

\* C24: on the same 2D or 3D vectors and tolerance, the override of the
\* type and the generic test |a|^2 |b|^2 (1 - eps^2) <= (a . b)^2 return
\* the same boolean.
C24_ParallelTestsAgree ==
    pc = "generic_done" =>
        /\ ret.first \in BOOLEAN
        /\ ret.first = ret.second

\* Vectors neither zero nor multiples of each other that both tests find
\* parallel within the tolerance.
C24_Witness ==
    /\ pc = "generic_done" /\ call.op = "Vector3_is_parallel_eps"
    /\ ~IsZeroVector(call.a) /\ ~IsZeroVector(call.b)
    /\ ~IsZeroVector(cross(call.a, call.b))
    /\ RLt(call.eps, one)
    /\ ret.first = TRUE /\ ret.second = TRUE

\* 2D vectors that both tests find not parallel.
C24_WitnessNotParallel ==
    /\ pc = "generic_done" /\ call.op = "Vector2_is_parallel_eps"
    /\ RGt(call.eps, zero)
    /\ ret.first = FALSE /\ ret.second = FALSE

\* ---------------------------------------------------------------------
\* intersect.rs: soundness of the intersections
\* ---------------------------------------------------------------------

\* The point q lies inside or on the box.
InBox(q, aabb) ==
    /\ RLe(aabb.min.x, q.x) /\ RLe(q.x, aabb.max.x)
    /\ RLe(aabb.min.y, q.y) /\ RLe(q.y, aabb.max.y)

\* C25: for every ray and every box with min <= max, zero direction
\* components included, a returned Some(t) has t >= 0 and the point
\* returned by intersection_point lies inside or on the box.
C25_RayAabbSound ==
    /\ (Done("ray_aabb_intersection") /\ ret.kind = "Some")
          => RGe(ret.val, zero)
    /\ (Done("ray_aabb_intersection_point") /\ ret.kind = "Some")
          => InBox(ret.val, call.aabb)

\* On each axis the ray does not move along, its origin is between the
\* two faces of the box; and the ray moves along one axis at least.
StraddlesSkippedAxes(ray, aabb) ==
    /\ ray.direction.x = zero =>
          RLe(aabb.min.x, ray.origin.x) /\ RLe(ray.origin.x, aabb.max.x)
    /\ ray.direction.y = zero =>
          RLe(aabb.min.y, ray.origin.y) /\ RLe(ray.origin.y, aabb.max.y)
    /\ ray.direction.x # zero \/ ray.direction.y # zero

\* What the code does satisfy: t >= 0 always, and the point is in the box
\* when the box straddles the ray on the axes the code skips.
C25_SoundOnStraddledAxes ==
    /\ (Done("ray_aabb_intersection") /\ ret.kind = "Some")
          => RGe(ret.val, zero)
    /\ (/\ Done("ray_aabb_intersection_point") /\ ret.kind = "Some"
        /\ StraddlesSkippedAxes(call.ray, call.aabb))
          => InBox(ret.val, call.aabb)

\* The ray parameter of the point q for a ray of unit direction.
ParameterOf(ray, q) ==
    NDot([x |-> RSub(q.x, ray.origin.x), y |-> RSub(q.y, ray.origin.y),
          z |-> RSub(q.z, ray.origin.z)], ray.direction)

\* q = origin + t * direction for a t >= 0.
OnForwardRay(ray, q) ==
    /\ RGe(ParameterOf(ray, q), zero)
    /\ q = RayAt(ray, ParameterOf(ray, q))

\* |q - center|^2 = radius^2.
OnSphere(sphere, q) ==
    LET v == [x |-> RSub(q.x, sphere.center.x),
              y |-> RSub(q.y, sphere.center.y),
              z |-> RSub(q.z, sphere.center.z)]
    IN  NDot(v, v) = RMul(sphere.radius, sphere.radius)

HasUnitDirection(ray) == NDot(ray.direction, ray.direction) = one

\* C26: for a ray of unit direction, origin inside the sphere included, a
\* point returned by the ray-sphere intersection_point is origin + t *
\* direction for a t >= 0 and lies on the sphere.
C26_SphereRayPointOnForwardRay ==
    (/\ Done("sphere_ray_intersection_point") /\ ret.kind = "Some"
     /\ HasUnitDirection(call.ray))
    => /\ OnForwardRay(call.ray, ret.val)
       /\ OnSphere(call.sphere, ret.val)

\* The origin of the ray is not strictly inside the sphere.
OriginNotInside(c) == RGe(NDot(SphereL(c), SphereL(c)), SphereR2(c))

\* What the code does satisfy: the point is on the sphere, and on the
\* forward ray when the origin is not strictly inside the sphere.
C26_OnSphereAndForwardFromOutside ==
    (/\ Done("sphere_ray_intersection_point") /\ ret.kind = "Some"
     /\ HasUnitDirection(call.ray))
    => /\ OnSphere(call.sphere, ret.val)
       /\ OriginNotInside(call) => OnForwardRay(call.ray, ret.val)

\* The point x lies on the closed segment between the ends of the line: it
\* is collinear with them and its projection falls between them.
OnSegment(x, line) ==
    LET sx == RSub(line.dest.x, line.origin.x)
        sy == RSub(line.dest.y, line.origin.y)
        vx == RSub(x.x, line.origin.x)
        vy == RSub(x.y, line.origin.y)
        along == RAdd(RMul(vx, sx), RMul(vy, sy))
    IN  /\ Wedge(vx, vy, sx, sy) = zero
        /\ RLe(zero, along)
        /\ RLe(along, RAdd(RMul(sx, sx), RMul(sy, sy)))
        /\ (sx = zero /\ sy = zero) => x = line.origin

\* x = origin + t * direction for a t >= 0, for a nonzero direction.
OnForwardRay2(x, ray) ==
    LET vx == RSub(x.x, ray.origin.x)
        vy == RSub(x.y, ray.origin.y)
    IN  /\ Wedge(vx, vy, ray.direction.x, ray.direction.y) = zero
        /\ RGe(RAdd(RMul(vx, ray.direction.x), RMul(vy, ray.direction.y)),
               zero)

IsZeroDirection(ray) == ray.direction.x = zero /\ ray.direction.y = zero

\* C27: for every ray and segment, a zero ray direction and a degenerate
\* segment included, a point returned by the ray-segment intersection_point
\* lies on the closed segment and, when the ray direction is nonzero, on
\* the forward ray.
C27_RaySegmentSound ==
    (Done("ray_line_intersection_point") /\ ret.kind = "Some") =>
        /\ OnSegment(ret.val, call.line)
        /\ ~IsZeroDirection(call.ray) => OnForwardRay2(ret.val, call.ray)

\* What the code does satisfy: both properties for every ray of nonzero
\* direction, degenerate segments included.
C27_SoundForNonzeroDirection ==
    (/\ Done("ray_line_intersection_point") /\ ret.kind = "Some"
     /\ ~IsZeroDirection(call.ray))
    => /\ OnSegment(ret.val, call.line)
       /\ OnForwardRay2(ret.val, call.ray)

\* ---------------------------------------------------------------------
\* plane.rs: from_points against from_point_normal
\* ---------------------------------------------------------------------

\* Plane::from_point_normal
from_point_normal(p, n) == [n |-> n, d |-> Point_dot(p, n)]

\* Triples of points: a anywhere, b in the plane z = 0, c in the plane
\* x = 0, and the triples of tests/plane.rs.
InitPlaneConstructors ==
    /\ ret = NoRet /\ pc = "call"
    /\ \/ \E a \in Points, b \in {q \in Points : q.z = zero},
             c \in {q \in Points : q.x = zero} :
             call = [op |-> "from_points", a |-> a, b |-> b, c |-> c]
       \/ call \in TestTriples

\* from_point_normal is called with the first point and the normal
\* (b - a) x (c - a).
FromPointNormalCall ==
    /\ pc = "done" /\ call.op = "from_points"
    /\ ret' = [kind |-> "values", first |-> ret,
               second |-> from_point_normal(
                              call.a, cross(sub_p(call.b, call.a),
                                            sub_p(call.c, call.a)))]
    /\ pc' = "normal_done"
    /\ UNCHANGED call

NextPlaneConstructors == FromPointsCall \/ FromPointNormalCall

SpecPlaneConstructors == InitPlaneConstructors /\ [][NextPlaneConstructors]_vars

\* C28: for non-collinear a, b, c and n = (b - a) x (c - a), from_points(a,
\* b, c) is the plane from_point_normal(a, n), whose d is a . n, so that it
\* contains a.
C28_ConstructorsAgree ==
    (pc = "normal_done" /\ ret.first.kind = "Some") =>
        /\ ret.second.d = NDot(ret.second.n, call.a)
        /\ OnPlane(ret.second, call.a)
        /\ ret.first.val = ret.second

\* What the code does satisfy: from_point_normal contains its point, and
\* from_points has the same normal and the opposite d.
C28_SameNormalOppositeOffset ==
    (pc = "normal_done" /\ ret.first.kind = "Some") =>
        /\ ret.second.d = NDot(ret.second.n, call.a)
        /\ OnPlane(ret.second, call.a)
        /\ ret.first.val.n = ret.second.n
        /\ ret.first.val.d = RNeg(ret.second.d)

\* ---------------------------------------------------------------------
\* plane.rs: approximate equality of planes with perpendicular normals
\* ---------------------------------------------------------------------

\* Both normals have length 1 and their dot product is 0.
UnitPerpendicularNormals(p, q) ==
    /\ NDot(p.n, p.n) = one /\ NDot(q.n, q.n) = one
    /\ NDot(p.n, q.n) = zero

\* C29: two planes with perpendicular normals of unit length are never
\* reported approx_eq under the default epsilon, whatever their offsets,
\* both offsets 0 included.
C29_PerpendicularPlanesNeverEqual ==
    (Done("plane_approx_eq") /\ UnitPerpendicularNormals(call.a, call.b))
    => ret = Value(FALSE)

\* What the code does: such planes are reported equal exactly when
\* d1^2 + d2^2 <= epsilon^2.
C29_EqualExactlyForTinyOffsets ==
    (Done("plane_approx_eq") /\ UnitPerpendicularNormals(call.a, call.b))
    => (ret.val <=> RLe(RAdd(RMul(call.a.d, call.a.d),
                             RMul(call.b.d, call.b.d)),
                        RMul(epsilon, epsilon)))

====
